---- MODULE Spec2Model ----
(***************************************************************************)
(* SEOContentAnalyzer (src/unnamed/part_001): the analyzer object, its     *)
(* input handlers and its scoring engine.                                  *)
(*                                                                         *)
(* Strings are sequences of one-character strings, so that every regular   *)
(* expression, split, trim and substring test of the source is computed on *)
(* characters.  Fractional numbers are kept as scaled integers, computed   *)
(* with exact arithmetic and JavaScript's Math.round (half up):            *)
(*   readingTime, fleschEase, fleschKincaid, smogIndex : tenths            *)
(*   primaryKeywordDensity, topKeywords density        : hundredths        *)
(* The source computes them in IEEE-754 doubles; a double and the exact     *)
(* value can round apart only where the exact value is a rounding tie, and *)
(* the contents below are chosen so that no such tie occurs.               *)
(* The timestamp field of the stored result (new Date()) is left out: it   *)
(* is the one field that every statement about result equality excludes.   *)
(***************************************************************************)
EXTENDS Integers, Sequences, FiniteSets, TLC

VARIABLES content, targetKeyword, metaDescription, analysisResults, console, call, browser

vars == <<content, targetKeyword, metaDescription, analysisResults, console, call, browser>>

(***************************************************************************)
(* Characters and character classes of the source's regular expressions.   *)
(***************************************************************************)
LowerLetters ==
    {"a","b","c","d","e","f","g","h","i","j","k","l","m",
     "n","o","p","q","r","s","t","u","v","w","x","y","z"}

UpperLetters == {"T", "H", "P"}

Digits == {"0","1","2","3","4","5","6","7","8","9"}

\* \s
WhiteSpace == {" ", "\n", "\t"}

\* \w
WordChars == LowerLetters \cup UpperLetters \cup Digits \cup {"_"}

\* [aeiouy]
Vowels == {"a","e","i","o","u","y"}

\* String.prototype.toLowerCase, one character
LowerChar(c) ==
    CASE c = "T" -> "t"
      [] c = "H" -> "h"
      [] c = "P" -> "p"
      [] OTHER -> c

toLowerCase(s) == [i \in 1..Len(s) |-> LowerChar(s[i])]

Min(a, b) == IF a < b THEN a ELSE b

Max(a, b) == IF a > b THEN a ELSE b

\* Math.round(n / d) for n >= 0, d > 0: the nearest integer, halves up
RoundDiv(n, d) == (2 * n + d) \div (2 * d)

\* Array.prototype.slice(0, n)
Take(s, n) == SubSeq(s, 1, Min(n, Len(s)))

\* String.prototype.substring(0, n)
substring(s, n) == SubSeq(s, 1, Min(n, Len(s)))

\* s.startsWith(p) at offset i (1-based): p occurs in s at position i
OccursAt(s, p, i) ==
    /\ i >= 1
    /\ i + Len(p) - 1 <= Len(s)
    /\ \A j \in 1..Len(p) : s[i + j - 1] = p[j]

\* String.prototype.includes
includes(s, p) == \E i \in 1..(Len(s) - Len(p) + 1) : OccursAt(s, p, i)

\* String.prototype.endsWith
endsWith(s, p) == Len(p) <= Len(s) /\ OccursAt(s, p, Len(s) - Len(p) + 1)

\* String.prototype.trim
trim(s) ==
    LET keep == {i \in 1..Len(s) : s[i] \notin WhiteSpace}
    IN  IF keep = {} THEN <<>>
        ELSE LET lo == CHOOSE i \in keep : \A j \in keep : i <= j
                 hi == CHOOSE i \in keep : \A j \in keep : j <= i
             IN  SubSeq(s, lo, hi)

\* The end of the maximal run of characters of `cls` that starts at i
\* (i - 1 when s[i] is not in cls)
RECURSIVE RunEnd(_, _, _)
RunEnd(s, i, cls) ==
    IF i <= Len(s) /\ s[i] \in cls THEN RunEnd(s, i + 1, cls) ELSE i - 1

\* String.prototype.split(/[seps]+/): the pieces between the maximal runs of
\* separator characters, the empty pieces at either end included
RECURSIVE SplitAcc(_, _, _, _, _)
SplitAcc(s, i, seps, cur, acc) ==
    IF i > Len(s) THEN Append(acc, cur)
    ELSE IF s[i] \in seps
         THEN SplitAcc(s, RunEnd(s, i, seps) + 1, seps, <<>>, Append(acc, cur))
         ELSE SplitAcc(s, i + 1, seps, Append(cur, s[i]), acc)

split(s, seps) == SplitAcc(s, 1, seps, <<>>, <<>>)

\* Array.prototype.filter(x => x.length > 0)
NonEmpty(seq) == SelectSeq(seq, LAMBDA x : Len(x) > 0)

\* s.replace(/[^keep]/g, rep) with rep one character
ReplaceOutside(s, keep, rep) ==
    [i \in 1..Len(s) |-> IF s[i] \in keep THEN s[i] ELSE rep]

\* s.replace(/[^keep]/g, '')
StripOutside(s, keep) == SelectSeq(s, LAMBDA c : c \in keep)

(***************************************************************************)
(* calculateWordStats                                                      *)
(***************************************************************************)
\* Math.round((words / 238) * 1.1 * 10) / 10, in tenths of a minute
\* The reading time of the words past the last whole 238
ReadingTimeWithinMinute(words) == RoundDiv(11 * (words % 238), 238)

ReadingTime(words) == RoundDiv(11 * words, 238)

\* text.split(/\n\s*\n/).filter(para => para.trim().length > 0).length on a
\* trimmed, non-empty text: a separator is a whitespace run holding two or
\* more newlines, and every piece between separators holds a non-blank
ParagraphCount(text) ==
    LET runStarts == {i \in 1..Len(text) :
                         /\ text[i] \in WhiteSpace
                         /\ (i = 1 \/ text[i - 1] \notin WhiteSpace)}
        newlines(i) == Cardinality({j \in i..RunEnd(text, i, WhiteSpace) :
                                       text[j] = "\n"})
    IN  1 + Cardinality({i \in runStarts : newlines(i) >= 2})

WordStatsOf(words, characters, sentences, paragraphs) ==
    [words |-> words, characters |-> characters, sentences |-> sentences,
     paragraphs |-> paragraphs, readingTime |-> ReadingTime(words)]

\* calculateWordStats with a sentence pattern that also ends a sentence at
\* a line break: /[.!?\n]+/
calculateWordStatsLineSentences(c) ==
    LET text == trim(c)
    IN  IF text = <<>>
        THEN [words |-> 0, characters |-> 0, sentences |-> 0,
              paragraphs |-> 0, readingTime |-> 0]
        ELSE WordStatsOf(
                 Len(NonEmpty(split(text, WhiteSpace))),
                 Len(text),
                 Len(SelectSeq(split(text, {".", "!", "?", "\n"}),
                               LAMBDA x : Len(trim(x)) > 0)),
                 ParagraphCount(text))

calculateWordStats(c) ==
    LET text == trim(c)
    IN  IF text = <<>>
        THEN [words |-> 0, characters |-> 0, sentences |-> 0,
              paragraphs |-> 0, readingTime |-> 0]
        ELSE WordStatsOf(
                 Len(NonEmpty(split(text, WhiteSpace))),
                 Len(text),
                 Len(SelectSeq(split(text, {".", "!", "?"}),
                               LAMBDA x : Len(trim(x)) > 0)),
                 ParagraphCount(text))

(***************************************************************************)
(* countSyllables, countWordSyllables, countPolysyllabicWords              *)
(***************************************************************************)
\* word.replace(/(ed|es|s)$/, '')
StripSyllableSuffix(word) ==
    IF endsWith(word, <<"e","d">>) \/ endsWith(word, <<"e","s">>)
    THEN SubSeq(word, 1, Len(word) - 2)
    ELSE IF endsWith(word, <<"s">>)
         THEN SubSeq(word, 1, Len(word) - 1)
         ELSE word

\* The for loop of countWordSyllables from position i on: a 'y' that is the
\* first letter or that follows a vowel is skipped by `continue`, which
\* leaves previousWasVowel as it was
RECURSIVE VowelGroups(_, _, _, _)
VowelGroups(word, i, syllables, previousWasVowel) ==
    IF i > Len(word) THEN syllables
    ELSE LET char == word[i]
             isVowel == char \in Vowels
         IN  IF char = "y" /\ (i = 1 \/ word[i - 1] \in Vowels)
             THEN VowelGroups(word, i + 1, syllables, previousWasVowel)
             ELSE VowelGroups(word, i + 1,
                              IF isVowel /\ ~previousWasVowel
                              THEN syllables + 1 ELSE syllables,
                              isVowel)

countWordSyllables(w) ==
    LET letters == StripOutside(w, LowerLetters)
    IN  IF Len(letters) = 0 THEN 0
        ELSE IF Len(letters) <= 3 THEN 1
        ELSE LET word == StripSyllableSuffix(letters)
                 n == Len(word)
                 groups == VowelGroups(word, 1, 0, FALSE)
                 silentE == IF /\ endsWith(word, <<"e">>)
                               /\ groups > 1
                               /\ n > 2
                               /\ word[n - 1] \notin Vowels
                            THEN groups - 1 ELSE groups
                 le == IF /\ endsWith(word, <<"l","e">>)
                          /\ n > 2
                          /\ word[n - 2] \notin Vowels
                       THEN silentE + 1 ELSE silentE
             IN  Max(1, le)

RECURSIVE SumSeq(_)
SumSeq(ns) == IF ns = <<>> THEN 0 ELSE Head(ns) + SumSeq(Tail(ns))

\* this.content.toLowerCase().split(/\s+/).filter(word => word.length > 0)
LowerWords(c) == NonEmpty(split(toLowerCase(c), WhiteSpace))

countSyllables(c) ==
    LET words == LowerWords(c)
    IN  SumSeq([i \in 1..Len(words) |-> countWordSyllables(words[i])])

countPolysyllabicWords(c) ==
    LET words == LowerWords(c)
    IN  Cardinality({i \in 1..Len(words) : countWordSyllables(words[i]) >= 3})

(***************************************************************************)
(* calculateReadabilityScores                                              *)
(***************************************************************************)
\* p / q <= r / s for p, r >= 0 and q, s > 0, by the continued fractions of
\* the two sides (no product is formed, so nothing overflows)
RECURSIVE FracLE(_, _, _, _)
FracLE(p, q, r, s) ==
    IF p \div q # r \div s THEN p \div q < r \div s
    ELSE IF p % q = 0 THEN TRUE
    ELSE IF r % s = 0 THEN FALSE
    ELSE FracLE(s, r % s, q, p % q)

\* The least k with k * k >= n
CeilSqrt(n) == CHOOSE k \in 0..n : k * k >= n /\ (k = 0 \/ (k - 1) * (k - 1) < n)

\* floor((10430 * sqrt(vn / vd) + offset) / scale) for offset > 0: the
\* greatest g with scale * g - offset <= 10430 * sqrt(vn / vd)
FloorSmog(vn, vd, offset, scale) ==
    LET fits(g) == LET a == scale * g - offset
                   IN  a <= 0 \/ FracLE(a * vd, 10430, 10430 * vn, a)
        top == (offset + 10430 * CeilSqrt((vn + vd - 1) \div vd)) \div scale + 1
    IN  CHOOSE g \in 0..top : fits(g) /\ ~fits(g + 1)

getFleschEaseGrade(num, den) ==
    IF num >= 90 * den THEN "Very Easy (5th grade)"
    ELSE IF num >= 80 * den THEN "Easy (6th grade)"
    ELSE IF num >= 70 * den THEN "Fairly Easy (7th grade)"
    ELSE IF num >= 60 * den THEN "Standard (8th-9th grade)"
    ELSE IF num >= 50 * den THEN "Fairly Difficult (10th-12th grade)"
    ELSE IF num >= 30 * den THEN "Difficult (College)"
    ELSE "Very Difficult (Graduate)"

\* gradeLevel is Math.round(grade); `${n}th grade` and
\* `College level (${n - 12} years)` are kept as <<template, n>>
getGradeDescription(gradeLevel) ==
    IF gradeLevel <= 12 THEN <<"th grade", gradeLevel>>
    ELSE IF gradeLevel <= 16 THEN <<"College level (years)", gradeLevel - 12>>
    ELSE <<"Graduate level">>

\* a / b + c / d for 0 <= a < b and 0 <= c < d lies in [0, 2): its ceiling
\* and its floor
FracSumCeil(a, b, c, d) ==
    IF a = 0 /\ c = 0 THEN 0 ELSE IF a * d + c * b <= b * d THEN 1 ELSE 2

FracSumFloor(a, b, c, d) == IF a * d + c * b >= b * d THEN 1 ELSE 0

ReadabilityOf(words, sentences, syllables, polysyllabicWords) ==
    IF words = 0 \/ sentences = 0
    THEN [fleschEase |-> 0, fleschKincaid |-> 0, smogIndex |-> 0,
          fleschEaseGrade |-> "N/A", fleschKincaidGrade |-> <<"N/A">>,
          smogGrade |-> <<"N/A">>]
    ELSE IF syllables = 0
    THEN [fleschEase |-> 0, fleschKincaid |-> 0, smogIndex |-> 0,
          fleschEaseGrade |-> "No text to analyze",
          fleschKincaidGrade |-> <<"No text to analyze">>,
          smogGrade |-> <<"No text to analyze">>]
    ELSE LET \* 1000 * (206.835 - 1.015 * words/sentences - 84.6 * syllables/words)
             \* is easeWhole less a fraction in [0, 2); easeFloor is its floor
             easeWhole == 206835 - ((1015 * words) \div sentences)
                                 - ((84600 * syllables) \div words)
             easeFloor == easeWhole - FracSumCeil((1015 * words) % sentences, sentences,
                                                  (84600 * syllables) % words, words)
             \* 100 * (0.39 * words/sentences + 11.8 * syllables/words - 15.59),
             \* floored
             gradeFloor == ((39 * words) \div sentences)
                           + ((1180 * syllables) \div words) - 1559
                           + FracSumFloor((39 * words) % sentences, sentences,
                                          (1180 * syllables) % words, words)
             \* the value under the square root of the SMOG index
             vn == IF sentences >= 30 THEN polysyllabicWords * 30
                   ELSE polysyllabicWords
             vd == IF sentences >= 30 THEN sentences ELSE 1
         IN  [\* Math.round(Math.max(0, Math.min(100, ease)) * 10)
              fleschEase |-> Max(0, Min(1000, (easeFloor + 50) \div 100)),
              \* Math.round(Math.max(0, grade) * 10)
              fleschKincaid |-> Max(0, (gradeFloor + 5) \div 10),
              \* Math.round((1.043 * sqrt(v) + 3.1291) * 10)
              smogIndex |-> FloorSmog(vn, vd, 31791, 1000),
              fleschEaseGrade |-> getFleschEaseGrade(easeFloor, 1000),
              fleschKincaidGrade |->
                  getGradeDescription(Max(0, (gradeFloor + 50) \div 100)),
              \* Math.round(1.043 * sqrt(v) + 3.1291)
              smogGrade |-> getGradeDescription(FloorSmog(vn, vd, 36291, 10000))]

calculateReadabilityScores(c) ==
    LET ws == calculateWordStats(c)
    IN  IF ws.words = 0 \/ ws.sentences = 0
        THEN ReadabilityOf(ws.words, ws.sentences, 0, 0)
        ELSE ReadabilityOf(ws.words, ws.sentences, countSyllables(c),
                           countPolysyllabicWords(c))

(***************************************************************************)
(* analyzeKeywords, extractTopKeywords, extractSemanticKeywords            *)
(***************************************************************************)
stopWords ==
    {
     <<"t","h","e">>, <<"a">>, <<"a","n">>, <<"a","n","d">>, <<"o","r">>,
     <<"b","u","t">>, <<"i","n">>, <<"o","n">>, <<"a","t">>, <<"t","o">>,
     <<"f","o","r">>, <<"o","f">>, <<"w","i","t","h">>, <<"b","y">>,
     <<"i","s">>, <<"a","r","e">>, <<"w","a","s">>, <<"w","e","r","e">>,
     <<"b","e">>, <<"b","e","e","n">>, <<"h","a","v","e">>, <<"h","a","s">>,
     <<"h","a","d">>, <<"d","o">>, <<"d","o","e","s">>, <<"d","i","d">>,
     <<"w","i","l","l">>, <<"w","o","u","l","d">>, <<"c","o","u","l","d">>,
     <<"s","h","o","u","l","d">>, <<"m","a","y">>, <<"m","i","g","h","t">>,
     <<"m","u","s","t">>, <<"c","a","n">>, <<"t","h","i","s">>, <<"t","h","a","t">>,
     <<"t","h","e","s","e">>, <<"t","h","o","s","e">>, <<"i">>, <<"y","o","u">>,
     <<"h","e">>, <<"s","h","e">>, <<"i","t">>, <<"w","e">>, <<"t","h","e","y">>,
     <<"m","e">>, <<"h","i","m">>, <<"h","e","r">>, <<"u","s">>, <<"t","h","e","m">>,
     <<"m","y">>, <<"y","o","u","r">>, <<"h","i","s">>, <<"i","t","s">>,
     <<"o","u","r">>, <<"t","h","e","i","r">>, <<"m","i","n","e">>,
     <<"y","o","u","r","s">>, <<"h","e","r","s">>, <<"o","u","r","s">>,
     <<"t","h","e","i","r","s">>, <<"w","h","a","t">>, <<"w","h","e","r","e">>,
     <<"w","h","e","n">>, <<"w","h","y">>, <<"h","o","w">>, <<"w","h","i","c","h">>,
     <<"w","h","o">>, <<"w","h","o","m">>, <<"w","h","o","s","e">>,
     <<"i","f">>, <<"u","n","l","e","s","s">>, <<"u","n","t","i","l">>,
     <<"w","h","i","l","e">>, <<"a","l","t","h","o","u","g","h">>,
     <<"t","h","o","u","g","h">>, <<"b","e","c","a","u","s","e">>,
     <<"s","i","n","c","e">>, <<"s","o">>, <<"t","h","a","n">>, <<"a","s">>,
     <<"l","i","k","e">>, <<"a","b","o","u","t">>, <<"a","b","o","v","e">>,
     <<"b","e","l","o","w">>, <<"u","p">>, <<"d","o","w","n">>, <<"o","u","t">>,
     <<"o","f","f">>, <<"o","v","e","r">>, <<"u","n","d","e","r">>,
     <<"a","g","a","i","n">>, <<"f","u","r","t","h","e","r">>, <<"t","h","e","n">>,
     <<"o","n","c","e">>
    }

\* The stored result before the first completed analysis: {}
NoResults == [empty |-> TRUE]

\* this.content.toLowerCase().replace(/[^\w\s]/g, ' ')
NormalizedText(c) == ReplaceOutside(toLowerCase(c), WordChars \cup WhiteSpace, " ")

\* word.replace(/(ing|ed|er|est|ly|s)$/, '')
StripStemSuffix(word) ==
    IF endsWith(word, <<"i","n","g">>) \/ endsWith(word, <<"e","s","t">>)
    THEN SubSeq(word, 1, Len(word) - 3)
    ELSE IF \/ endsWith(word, <<"e","d">>)
            \/ endsWith(word, <<"e","r">>)
            \/ endsWith(word, <<"l","y">>)
         THEN SubSeq(word, 1, Len(word) - 2)
         ELSE IF endsWith(word, <<"s">>)
              THEN SubSeq(word, 1, Len(word) - 1)
              ELSE word

\* The filter of the single-word branch
SingleWordMatches(word, keywordWord) ==
    LET targetWord == StripOutside(keywordWord, WordChars)
        cleanWord == StripOutside(word, WordChars)
        stemmed == StripStemSuffix(cleanWord)
        targetStemmed == StripStemSuffix(targetWord)
    IN  \/ cleanWord = targetWord
        \/ (stemmed = targetStemmed /\ Len(stemmed) > 2)

\* new RegExp(`\\b${keywordWords.join('\\s+')}\\b`, 'gi') throws a SyntaxError:
\* the keywords of the model hold one character that is special in a regular
\* expression, "(", and never ")", so a pattern that holds it is an
\* unterminated group; every other keyword character is a word character
\* and stands for itself
RegExpThrows(keywordWords) ==
    \E k \in 1..Len(keywordWords) : \E j \in 1..Len(keywordWords[k]) :
        keywordWords[k][j] = "("

\* The end of the match of keywordWords[k..] (joined by \s+, closed by \b)
\* that starts at pos, or 0 when there is none
RECURSIVE MatchWordsAt(_, _, _, _)
MatchWordsAt(text, keywordWords, k, pos) ==
    LET word == keywordWords[k]
        last == pos + Len(word) - 1
    IN  IF ~OccursAt(text, word, pos) THEN 0
        ELSE IF k = Len(keywordWords)
             THEN IF last = Len(text) \/ text[last + 1] \notin WordChars
                  THEN last ELSE 0
             ELSE LET gap == RunEnd(text, last + 1, WhiteSpace)
                  IN  IF gap = last THEN 0
                      ELSE MatchWordsAt(text, keywordWords, k + 1, gap + 1)

\* The end of the match of the phrase pattern that starts at i, or 0
PhraseMatchEnd(text, keywordWords, i) ==
    IF i > 1 /\ text[i - 1] \in WordChars THEN 0
    ELSE MatchWordsAt(text, keywordWords, 1, i)

\* (text.match(phraseRegex) || []).length: the matches from position i on,
\* leftmost first, each search resuming after the previous match
RECURSIVE CountPhraseMatches(_, _, _)
CountPhraseMatches(text, keywordWords, i) ==
    IF i > Len(text) THEN 0
    ELSE LET e == PhraseMatchEnd(text, keywordWords, i)
         IN  IF e > 0 THEN 1 + CountPhraseMatches(text, keywordWords, e + 1)
             ELSE CountPhraseMatches(text, keywordWords, i + 1)

exactMatches(c, keywordWords) ==
    CountPhraseMatches(NormalizedText(c), keywordWords, 1)

\* The loop over the windows of text.split(/\s+/); Math.ceil(n * 0.7) is
\* (7 * n + 9) \div 10
partialMatches(c, keywordWords) ==
    LET words == split(NormalizedText(c), WhiteSpace)
        n == Len(keywordWords)
        near(word) == \E k \in 1..n :
                          includes(word, keywordWords[k]) \/ includes(keywordWords[k], word)
        matchCount(i) == Cardinality({j \in i..(i + n - 1) : near(words[j])})
    IN  Cardinality({i \in 1..(Len(words) - n + 1) :
                        matchCount(i) >= (7 * n + 9) \div 10})

PhraseCount(c, keywordWords) ==
    exactMatches(c, keywordWords) + (partialMatches(c, keywordWords) \div 2)

\* The status chain, on the density primaryKeywordCount / totalWords * 100
\* before it is rounded
DensityStatus(primaryKeywordCount, totalWords) ==
    LET num == IF totalWords > 0 THEN 100 * primaryKeywordCount ELSE 0
        den == IF totalWords > 0 THEN totalWords ELSE 1
    IN  IF num = 0 THEN "Keyword not found in content"
        ELSE IF 2 * num < den THEN "Keyword density too low"
        ELSE IF num <= 2 * den THEN "Optimal keyword density"
        ELSE IF num <= 3 * den THEN "Keyword density slightly high"
        ELSE "Keyword density too high - risk of over-optimization"

\* Math.round(primaryKeywordDensity * 100) / 100, in hundredths of a percent
RoundedDensity(primaryKeywordCount, totalWords) ==
    IF totalWords > 0 THEN RoundDiv(10000 * primaryKeywordCount, totalWords) ELSE 0

\* The one lower-case name that wordCounts = {} inherits from
\* Object.prototype
constructor == <<"c","o","n","s","t","r","u","c","t","o","r">>

\* A value that is no number: NaN
NaN == -1

\* The forEach of extractTopKeywords over a words array given as runs, each
\* run a word and the number of its consecutive copies: the entries of
\* wordCounts, in the order in which the loop inserts them.
\* wordCounts['constructor'] is the function Object before the loop assigns
\* it, and it is truthy, so `(wordCounts[cleanWord] || 0) + 1` is the string
\* "function Object() { [native code] }1" and every further occurrence
\* appends a "1": that string of k ones is the count -k here.
WordCountsOfRuns(runs) ==
    LET n == Len(runs)
        cleanWord == [i \in 1..n |->
                         toLowerCase(StripOutside(runs[i].word,
                             LowerLetters \cup UpperLetters \cup Digits))]
        counted(i) == /\ Len(cleanWord[i]) >= 3
                      /\ cleanWord[i] \notin stopWords
                      /\ \E j \in 1..Len(cleanWord[i]) : cleanWord[i][j] \notin Digits
        \* the keys of wordCounts, named by the run that inserts them
        firsts == {i \in 1..n :
                      counted(i) /\ \A j \in 1..(i - 1) : cleanWord[j] # cleanWord[i]}
        inserted == SelectSeq([i \in 1..n |-> i], LAMBDA i : i \in firsts)
    IN  [k \in 1..Len(inserted) |->
            [word |-> cleanWord[inserted[k]],
             count |-> LET occurrences ==
                               SumSeq([j \in 1..n |->
                                   IF cleanWord[j] = cleanWord[inserted[k]]
                                   THEN runs[j].copies ELSE 0])
                       IN  IF cleanWord[inserted[k]] = constructor
                           THEN 0 - occurrences ELSE occurrences]]

WordCounts(words) ==
    WordCountsOfRuns([i \in 1..Len(words) |-> [word |-> words[i], copies |-> 1]])

\* Object.entries(wordCounts).sort(([,a], [,b]) => b - a).slice(0, 10).map(...)
\* for a words array of `total` entries: the sort is stable.  b - a is NaN
\* when a count is a string, and the sort takes NaN as 0 (equal); the order
\* is defined by the language only when the comparison is consistent, and
\* only then has every entry a rank of its own here.
\* The sort and map of extractTopKeywords without the slice(0, 10) between them
TopKeywordsOfUncapped(wordCounts, total) ==
    LET n == Len(wordCounts)
        \* b - a for a = wordCounts[i].count and b = wordCounts[j].count
        difference(i, j) == IF wordCounts[i].count < 0 \/ wordCounts[j].count < 0
                            THEN 0
                            ELSE wordCounts[j].count - wordCounts[i].count
        before(i, j) == \/ difference(i, j) < 0
                        \/ (difference(i, j) = 0 /\ i < j)
        rank(i) == Cardinality({j \in 1..n : before(j, i)}) + 1
        sorted == [k \in 1..n |-> wordCounts[CHOOSE i \in 1..n : rank(i) = k]]
        top == sorted
    IN  [k \in 1..Len(top) |->
            [word |-> top[k].word, count |-> top[k].count,
             density |-> IF top[k].count < 0 THEN NaN
                         ELSE RoundDiv(10000 * top[k].count, total)]]

TopKeywordsOf(wordCounts, total) ==
    LET n == Len(wordCounts)
        \* b - a for a = wordCounts[i].count and b = wordCounts[j].count
        difference(i, j) == IF wordCounts[i].count < 0 \/ wordCounts[j].count < 0
                            THEN 0
                            ELSE wordCounts[j].count - wordCounts[i].count
        before(i, j) == \/ difference(i, j) < 0
                        \/ (difference(i, j) = 0 /\ i < j)
        rank(i) == Cardinality({j \in 1..n : before(j, i)}) + 1
        sorted == [k \in 1..n |-> wordCounts[CHOOSE i \in 1..n : rank(i) = k]]
        top == Take(sorted, 10)
    IN  [k \in 1..Len(top) |->
            [word |-> top[k].word, count |-> top[k].count,
             density |-> IF top[k].count < 0 THEN NaN
                         ELSE RoundDiv(10000 * top[k].count, total)]]

\* extractTopKeywords(words)
extractTopKeywords(words) == TopKeywordsOf(WordCounts(words), Len(words))

\* The nine patterns of extractSemanticKeywords, in the order of the source
SemanticPatterns(keyword) ==
    << keyword \o <<"s">>,
       keyword \o <<"e","d">>,
       keyword \o <<"i","n","g">>,
       keyword \o <<"e","r">>,
       keyword \o <<"e","s","t">>,
       <<"b","e","s","t"," ">> \o keyword,
       keyword \o <<" ","g","u","i","d","e">>,
       keyword \o <<" ","t","i","p","s">>,
       <<"h","o","w"," ","t","o"," ">> \o keyword >>

\* extractSemanticKeywords without its final slice(0, 5)
extractSemanticKeywordsUncapped(c, kw) ==
    LET text == toLowerCase(c)
        keyword == toLowerCase(kw)
    IN  IF trim(kw) # <<>>
        THEN SelectSeq(SemanticPatterns(keyword),
                 LAMBDA p : includes(text, p) /\ p # keyword)
        ELSE <<>>

extractSemanticKeywords(c, kw) ==
    LET text == toLowerCase(c)
        keyword == toLowerCase(kw)
        patterns == SemanticPatterns(keyword)
        semanticTerms == IF trim(kw) # <<>>
                         THEN SelectSeq(patterns,
                                  LAMBDA p : includes(text, p) /\ p # keyword)
                         ELSE <<>>
    IN  Take(semanticTerms, 5)

\* KeywordAnalysisOf that takes the keyword branch whether a keyword is set
\* or not
KeywordAnalysisOfAnyKeyword(primaryKeywordCount, totalWords, keywordSet, topKeywords, semanticKeywords) ==
    [primaryKeywordDensity |-> RoundedDensity(primaryKeywordCount, totalWords),
     primaryKeywordCount |-> primaryKeywordCount,
     optimalRange |-> "0.5-2%",
     status |-> DensityStatus(primaryKeywordCount, totalWords),
     topKeywords |-> topKeywords,
     semanticKeywords |-> semanticKeywords]

\* The object analyzeKeywords returns once the count is known
KeywordAnalysisOf(primaryKeywordCount, totalWords, keywordSet, topKeywords, semanticKeywords) ==
    [primaryKeywordDensity |-> IF keywordSet
                               THEN RoundedDensity(primaryKeywordCount, totalWords)
                               ELSE 0,
     primaryKeywordCount |-> IF keywordSet THEN primaryKeywordCount ELSE 0,
     optimalRange |-> "0.5-2%",
     status |-> IF keywordSet THEN DensityStatus(primaryKeywordCount, totalWords)
                ELSE "Enter target keyword for analysis",
     topKeywords |-> topKeywords,
     semanticKeywords |-> semanticKeywords]

\* this.analysisResults?.wordStats?.words || <the word count of this.content>
totalWordsOf(c, results) ==
    IF results # NoResults /\ results.wordStats.words # 0
    THEN results.wordStats.words
    ELSE Len(NonEmpty(split(trim(c), WhiteSpace)))

\* keywordWords of analyzeKeywords
KeywordWords(kw) == NonEmpty(split(trim(toLowerCase(kw)), WhiteSpace))

\* analyzeKeywords throws: the phrase branch builds a pattern that is no
\* regular expression
analyzeKeywordsThrows(c, kw) ==
    /\ trim(c) # <<>>
    /\ Len(KeywordWords(kw)) > 1
    /\ RegExpThrows(KeywordWords(kw))

\* analyzeKeywords() with this.content = c, this.targetKeyword = kw and
\* this.analysisResults = results, when it does not throw
analyzeKeywords(c, kw, results) ==
    IF trim(c) = <<>>
    THEN [primaryKeywordDensity |-> 0, primaryKeywordCount |-> 0,
          optimalRange |-> "1-2%", status |-> "No content to analyze",
          topKeywords |-> <<>>, semanticKeywords |-> <<>>]
    ELSE LET totalWords == totalWordsOf(c, results)
             cleanedWords == NonEmpty(split(NormalizedText(c), WhiteSpace))
             keywordWords == KeywordWords(kw)
             primaryKeywordCount ==
                 IF trim(kw) = <<>> THEN 0
                 ELSE IF Len(keywordWords) = 1
                 THEN Cardinality({i \in 1..Len(cleanedWords) :
                          SingleWordMatches(cleanedWords[i], keywordWords[1])})
                 ELSE PhraseCount(c, keywordWords)
         IN  KeywordAnalysisOf(primaryKeywordCount, totalWords,
                               trim(kw) # <<>>,
                               extractTopKeywords(cleanedWords),
                               extractSemanticKeywords(c, kw))

(***************************************************************************)
(* analyzeHeadingStructure                                                 *)
(***************************************************************************)
\* The end of the maximal run of characters other than `stops` from i on
RECURSIVE RunEndNot(_, _, _)
RunEndNot(s, i, stops) ==
    IF i <= Len(s) /\ s[i] \notin stops THEN RunEndNot(s, i + 1, stops) ELSE i - 1

\* parseInt of one digit
DigitValue(d) ==
    CASE d = "1" -> 1 [] d = "2" -> 2 [] d = "3" -> 3
      [] d = "4" -> 4 [] d = "5" -> 5 [] d = "6" -> 6

\* The match of /^#{1,6}\s+(.+)$/m that starts at i, or NoMatch.  `\s+` takes
\* the whole whitespace run when a character follows it; when the run ends
\* the string it gives characters back until `.+` has one that is no newline.
NoMatch == [index |-> 0]

MarkdownMatchAt(s, i) ==
    LET hashes == RunEnd(s, i, {"#"}) - i + 1
        ws == i + hashes
        wsEnd == RunEnd(s, ws, WhiteSpace)
        inRun == {q \in (ws + 1)..wsEnd : s[q] # "\n"}
        from == IF wsEnd < Len(s) THEN wsEnd + 1
                ELSE IF inRun = {} THEN 0
                ELSE CHOOSE q \in inRun : \A r \in inRun : r <= q
        to == RunEndNot(s, from, {"\n"})
    IN  IF /\ (i = 1 \/ s[i - 1] = "\n")
           /\ hashes >= 1
           /\ hashes <= 6
           /\ wsEnd >= ws
           /\ from > 0
        THEN [index |-> i, end |-> to, markdown |-> TRUE, level |-> hashes,
              text |-> trim(SubSeq(s, from, to))]
        ELSE NoMatch

\* The match of /<h([1-6])(?:[^>]*)>([^<]+)<\/h[1-6]>/i that starts at i
HtmlMatchAt(s, i) ==
    LET gt == RunEndNot(s, i + 3, {">"}) + 1
        lt == RunEndNot(s, gt + 1, {"<"}) + 1
    IN  IF /\ i + 2 <= Len(s)
           /\ s[i] = "<"
           /\ LowerChar(s[i + 1]) = "h"
           /\ s[i + 2] \in {"1","2","3","4","5","6"}
           /\ gt <= Len(s)
           /\ lt > gt + 1
           /\ lt + 4 <= Len(s)
           /\ s[lt] = "<"
           /\ s[lt + 1] = "/"
           /\ LowerChar(s[lt + 2]) = "h"
           /\ s[lt + 3] \in {"1","2","3","4","5","6"}
           /\ s[lt + 4] = ">"
        THEN [index |-> i, end |-> lt + 4, markdown |-> FALSE,
              level |-> DigitValue(s[i + 2]),
              text |-> trim(SubSeq(s, gt + 1, lt - 1))]
        ELSE NoMatch

\* Array.from(this.content.matchAll(re)) from position i on: the matches in
\* the order of the scan, each search resuming after the previous match
RECURSIVE MatchAll(_, _, _)
MatchAll(s, markdown, i) ==
    LET At(j) == IF markdown THEN MarkdownMatchAt(s, j) ELSE HtmlMatchAt(s, j)
        starts == {j \in i..Len(s) : At(j) # NoMatch}
    IN  IF starts = {} THEN <<>>
        ELSE LET m == At(CHOOSE j \in starts : \A k \in starts : j <= k)
             IN  <<m>> \o MatchAll(s, markdown, m.end + 1)

\* headingMatches: the markdown matches, then the HTML matches
headingMatches(c) == MatchAll(c, TRUE, 1) \o MatchAll(c, FALSE, 1)

\* hierarchyIssues with previousLevel left alone after a violation: the
\* next heading is compared with the last heading that was in order
RECURSIVE hierarchyIssuesKeepingLevel(_, _)
hierarchyIssuesKeepingLevel(headings, previousLevel) ==
    IF headings = <<>> THEN 0
    ELSE IF Head(headings).level > previousLevel + 1
         THEN 1 + hierarchyIssuesKeepingLevel(Tail(headings), previousLevel)
         ELSE hierarchyIssuesKeepingLevel(Tail(headings), Head(headings).level)

\* The forEach over headings that counts the hierarchy issues
RECURSIVE hierarchyIssues(_, _)
hierarchyIssues(headings, previousLevel) ==
    IF headings = <<>> THEN 0
    ELSE (IF Head(headings).level > previousLevel + 1 THEN 1 ELSE 0)
         + hierarchyIssues(Tail(headings), Head(headings).level)

\* What analyzeHeadingStructure makes of the extracted headings
HeadingStructureOf(headings) ==
    LET countOf(l) == Cardinality({i \in 1..Len(headings) : headings[i].level = l})
        hasH1 == countOf(1) > 0
        multipleH1 == countOf(1) > 1
        issuesFound == hierarchyIssues(headings, 0)
        structureScore == 100 - (IF ~hasH1 THEN 30 ELSE 0)
                              - (IF multipleH1 THEN 20 ELSE 0)
                              - issuesFound * 10
        h1s == {i \in 1..Len(headings) : headings[i].level = 1}
    IN  [totalHeadings |-> Len(headings),
         headings |-> headings,
         headingCounts |-> [h1 |-> countOf(1), h2 |-> countOf(2), h3 |-> countOf(3),
                            h4 |-> countOf(4), h5 |-> countOf(5), h6 |-> countOf(6)],
         hasH1 |-> hasH1,
         multipleH1 |-> multipleH1,
         structureScore |-> Max(0, structureScore),
         issues |-> (IF ~hasH1 THEN <<"Missing H1 tag">> ELSE <<>>)
                    \o (IF multipleH1 THEN <<"Multiple H1 tags found">> ELSE <<>>)
                    \o (IF issuesFound > 0
                        THEN <<"Heading hierarchy issues detected">> ELSE <<>>),
         headingCount |-> Len(headings),
         h1Text |-> IF hasH1
                    THEN headings[CHOOSE i \in h1s : \A j \in h1s : i <= j].text
                    ELSE <<>>]

analyzeHeadingStructure(c) ==
    LET matches == headingMatches(c)
    IN  HeadingStructureOf([i \in 1..Len(matches) |->
            [level |-> matches[i].level, text |-> substring(matches[i].text, 100)]])

(***************************************************************************)
(* calculateSEOScore and the four category scores.  The meta description   *)
(* and the target keyword are read from the object (this.metaDescription,  *)
(* this.targetKeyword), here the parameters meta and kw.                   *)
(***************************************************************************)
calculateContentQualityScore(wordStats, keywordAnalysis) ==
    LET wordCount == wordStats.words
        density == keywordAnalysis.primaryKeywordDensity
        semanticCount == Len(keywordAnalysis.semanticKeywords)
        topCount == Len(keywordAnalysis.topKeywords)
        \* topKeywords.length / Math.max(1, words / 100) >= r / 10
        ratioAtLeast(r) == IF wordCount <= 100 THEN 10 * topCount >= r
                           ELSE 1000 * topCount >= r * wordCount
    IN  Min(100,
          (IF wordCount >= 1500 /\ wordCount <= 2500 THEN 25
           ELSE IF wordCount >= 1000 /\ wordCount <= 3000 THEN 20
           ELSE IF wordCount >= 500 /\ wordCount <= 4000 THEN 15
           ELSE IF wordCount >= 300 THEN 10
           ELSE 0)
        + (IF density >= 80 /\ density <= 150 THEN 30
           ELSE IF density >= 50 /\ density <= 250 THEN 25
           ELSE IF density > 0 /\ density <= 350 THEN 15
           ELSE IF density > 350 THEN 5
           ELSE 0)
        + (IF semanticCount >= 10 THEN 20
           ELSE IF semanticCount >= 5 THEN 15
           ELSE IF semanticCount >= 2 THEN 10
           ELSE 0)
        + (IF wordStats.sentences > 0
           THEN IF /\ wordCount >= 12 * wordStats.sentences
                   /\ wordCount <= 18 * wordStats.sentences THEN 15
                ELSE IF /\ wordCount >= 8 * wordStats.sentences
                        /\ wordCount <= 25 * wordStats.sentences THEN 12
                ELSE 8
           ELSE 0)
        + (IF ratioAtLeast(8) THEN 10
           ELSE IF ratioAtLeast(5) THEN 7
           ELSE 3))

TechnicalSEOPoints(headingStructure, keywordAnalysis, kw, meta) ==
    LET totalHeadings == headingStructure.headingCount
        metaLength == Len(meta)
        activeFactors ==
              (IF keywordAnalysis.primaryKeywordCount > 0 THEN 1 ELSE 0)
            + (IF Len(keywordAnalysis.topKeywords) >= 5 THEN 1 ELSE 0)
            + (IF Len(trim(kw)) > 0 THEN 1 ELSE 0)
            + (IF metaLength > 0 THEN 1 ELSE 0)
            + (IF headingStructure.hasH1 THEN 1 ELSE 0)
            + (IF totalHeadings >= 2 THEN 1 ELSE 0)
    IN    (IF headingStructure.hasH1
           THEN 15 + (IF /\ kw # <<>>
                         /\ headingStructure.h1Text # <<>>
                         /\ includes(toLowerCase(headingStructure.h1Text),
                                     toLowerCase(kw))
                      THEN 10 ELSE 0)
           ELSE 0)
        + (IF ~headingStructure.multipleH1 THEN 10 ELSE 0)
        + (IF totalHeadings >= 3 /\ totalHeadings <= 10 THEN 10
           ELSE IF totalHeadings > 0 THEN 5
           ELSE 0)
        + (IF metaLength >= 120 /\ metaLength <= 158
           THEN 20 + (IF /\ kw # <<>>
                         /\ meta # <<>>
                         /\ includes(toLowerCase(meta), toLowerCase(kw))
                      THEN 10 ELSE 0)
           ELSE IF metaLength >= 100 /\ metaLength <= 180 THEN 15
           ELSE IF metaLength > 0 THEN 5
           ELSE 0)
        \* Math.round((activeFactors / 6) * 30)
        + RoundDiv(activeFactors * 30, 6)

\* calculateTechnicalSEOScore without its final Math.min(100, score)
calculateTechnicalSEOScoreUnclamped(headingStructure, keywordAnalysis, kw, meta) ==
    TechnicalSEOPoints(headingStructure, keywordAnalysis, kw, meta)

calculateTechnicalSEOScore(headingStructure, keywordAnalysis, kw, meta) ==
    Min(100, TechnicalSEOPoints(headingStructure, keywordAnalysis, kw, meta))

calculateReadabilityScore(readabilityScores) ==
    LET fkGrade == readabilityScores.fleschKincaid
        fleschEase == readabilityScores.fleschEase
        smogIndex == readabilityScores.smogIndex
        readabilityConsistency == IF fkGrade >= smogIndex THEN fkGrade - smogIndex
                                  ELSE smogIndex - fkGrade
    IN  Min(100,
          (IF fkGrade >= 60 /\ fkGrade <= 80 THEN 40
           ELSE IF fkGrade >= 50 /\ fkGrade <= 100 THEN 35
           ELSE IF fkGrade >= 40 /\ fkGrade <= 120 THEN 25
           ELSE 15)
        + (IF fleschEase >= 600 /\ fleschEase <= 800 THEN 30
           ELSE IF fleschEase >= 500 /\ fleschEase <= 900 THEN 25
           ELSE IF fleschEase >= 300 THEN 15
           ELSE 5)
        + (IF readabilityConsistency <= 20 THEN 30
           ELSE IF readabilityConsistency <= 40 THEN 20
           ELSE 10))

calculateUserExperienceScore(wordStats) ==
    LET readingTime == wordStats.readingTime
        sentenceCount == wordStats.sentences
        wordCount == wordStats.words
    IN  Min(100,
          (IF readingTime >= 30 /\ readingTime <= 120 THEN 50
           ELSE IF readingTime >= 20 /\ readingTime <= 200 THEN 40
           ELSE IF readingTime >= 10 THEN 25
           ELSE 0)
        + (IF sentenceCount > 0
           THEN IF wordCount <= 20 * sentenceCount THEN 30
                ELSE IF wordCount <= 25 * sentenceCount THEN 20
                ELSE 10
           ELSE 0)
        + (IF wordCount >= 800 /\ wordCount <= 3000 THEN 20
           ELSE IF wordCount >= 300 THEN 15
           ELSE 5))

\* Math.round(cq * 0.35 + tech * 0.30 + read * 0.20 + ux * 0.15)
WeightedOverall(cq, tech, read, ux) ==
    RoundDiv(35 * cq + 30 * tech + 20 * read + 15 * ux, 100)

calculateSEOScore(wordStats, readabilityScores, keywordAnalysis, headingStructure, kw, meta) ==
    LET contentQuality == calculateContentQualityScore(wordStats, keywordAnalysis)
        technicalSEO == calculateTechnicalSEOScore(headingStructure,
                                                   keywordAnalysis, kw, meta)
        readability == calculateReadabilityScore(readabilityScores)
        userExperience == calculateUserExperienceScore(wordStats)
    IN  [overall |-> Min(100, Max(0, WeightedOverall(contentQuality, technicalSEO,
                                                     readability, userExperience))),
         contentQuality |-> contentQuality,
         technicalSEO |-> technicalSEO,
         readability |-> readability,
         userExperience |-> userExperience]

(***************************************************************************)
(* updateAnalysis and the handlers                                         *)
(***************************************************************************)
\* The last line updateAnalysis wrote to the console
LogReset == "No content, resetting analysis"
LogError == "Error in updateAnalysis"
LogComplete == "Analysis complete!"

\* The object updateAnalysis stores, from this.content = c,
\* this.targetKeyword = kw, this.metaDescription = meta and the stored
\* results that analyzeKeywords reads
AnalysisOf(c, kw, meta, results) ==
    LET wordStats == calculateWordStats(c)
        readabilityScores == calculateReadabilityScores(c)
        keywordAnalysis == analyzeKeywords(c, kw, results)
        headingStructure == analyzeHeadingStructure(c)
    IN  [wordStats |-> wordStats,
         readabilityScores |-> readabilityScores,
         keywordAnalysis |-> keywordAnalysis,
         headingStructure |-> headingStructure,
         seoScore |-> calculateSEOScore(wordStats, readabilityScores,
                                        keywordAnalysis, headingStructure, kw, meta)]

\* updateAnalysis(): resetAnalysis() on blank content (it writes to the page
\* only), the catch block when analyzeKeywords throws (it logs only), else
\* the new results are stored
updateAnalysis(c, kw, meta) ==
    IF trim(c) = <<>>
    THEN /\ analysisResults' = analysisResults
         /\ console' = LogReset
    ELSE IF analyzeKeywordsThrows(c, kw)
    THEN /\ analysisResults' = analysisResults
         /\ console' = LogError
    ELSE /\ analysisResults' = AnalysisOf(c, kw, meta, analysisResults)
         /\ console' = LogComplete

NoCall == [fn |-> "none"]

\* The wait of the three debounced listeners, in milliseconds
wait == 300

\* The input fields with a debounced listener
Fields == {"content", "keyword", "meta"}

\* The browser side of the page: the value of each field, the pending timers
\* of each debounce closure (the milliseconds each has left), the time since
\* the last input event of each field that no run of its listener has
\* followed yet (none when there is no such event), and the time since
\* updateAnalysis ran last, counted up to wait.  The constructor has just
\* run updateAnalysis
IdleBrowser ==
    [value |-> [f \in Fields |-> <<>>],
     timers |-> [f \in Fields |-> {}],
     sinceInput |-> [f \in Fields |-> {}],
     sinceRun |-> 0]

\* The state the constructor leaves: its updateAnalysis() finds no content
\* and no timer is set
Init ==
    /\ content = <<>>
    /\ targetKeyword = <<>>
    /\ metaDescription = <<>>
    /\ analysisResults = NoResults
    /\ console = LogReset
    /\ call = NoCall
    /\ browser = IdleBrowser

\* The 'input' listener of #content-input that debounce wraps, run with the
\* value of the field
ContentInput(value) ==
    /\ content' = value
    /\ updateAnalysis(value, targetKeyword, metaDescription)
    /\ call' = NoCall
    /\ UNCHANGED <<targetKeyword, metaDescription>>

\* The 'input' listener of #target-keyword that debounce wraps
KeywordInput(value) ==
    /\ targetKeyword' = value
    /\ updateAnalysis(content, value, metaDescription)
    /\ call' = NoCall
    /\ UNCHANGED <<content, metaDescription>>

\* The 'input' listener of #meta-description that debounce wraps:
\* updateMetaAnalysis()
\* writes to the page only
MetaInput(value) ==
    /\ metaDescription' = value
    /\ call' = NoCall
    /\ UNCHANGED <<content, targetKeyword, analysisResults, console>>

(***************************************************************************)
(* exportJSON and exportCSV                                                *)
(***************************************************************************)
NoDataAlert == "No analysis data to export. Please analyze some content first."
IncompleteError == "Analysis data is incomplete. Please re-analyze your content."

\* The parts both exports destructure from this.analysisResults and require
ExportParts == {"wordStats", "readabilityScores", "keywordAnalysis", "seoScore"}

\* A guard that only asks for an object: !this.analysisResults alone
NoObject(results) == FALSE

\* Object.keys(this.analysisResults).length === 0
NoKeys(results) == results = NoResults

\* What the browser calls of the try block do (new Blob, createObjectURL,
\* appendChild, a.click(), removeChild, revokeObjectURL): they complete, or
\* one of them throws before or after the click that starts the download
BrowserOutcomes == {"completes", "throws before click", "throws after click"}

getScoreStatus(score) ==
    IF score >= 80 THEN "Excellent"
    ELSE IF score >= 60 THEN "Good"
    ELSE IF score >= 40 THEN "Fair"
    ELSE "Needs Improvement"

getWordCountStatus(wordCount) ==
    IF wordCount >= 1500 /\ wordCount <= 2500 THEN "Optimal"
    ELSE IF wordCount >= 1000 /\ wordCount <= 3000 THEN "Good"
    ELSE IF wordCount >= 500 THEN "Acceptable"
    ELSE "Too Short"

\* density || 0 of a top keyword: NaN gives 0
OrZero(n) == IF n = NaN THEN 0 ELSE n

\* exportData of exportJSON, the object handed to JSON.stringify (the
\* metadata part holds the time of the export and is left out)
exportData(results, c, kw, meta) ==
    [analysisResults |-> results,
     content |-> [text |-> substring(c, 1000)
                              \o (IF Len(c) > 1000 THEN <<".", ".", ".">> ELSE <<>>),
                  targetKeyword |-> kw,
                  metaDescription |-> meta]]

\* csvData of exportCSV, the rows before each cell is quoted; a count that is
\* a string stays as it is under || 0, and the cell of the target keyword is
\* a text of the page or the one-element text of the literal
csvData(results, kw) ==
    LET seoScore == results.seoScore
        wordStats == results.wordStats
        readabilityScores == results.readabilityScores
        keywordAnalysis == results.keywordAnalysis
        topKeywords == keywordAnalysis.topKeywords
        blank == <<"", "", "">>
    IN  << <<"Metric", "Value", "Status/Grade">>,
           <<"Overall SEO Score", seoScore.overall, getScoreStatus(seoScore.overall)>>,
           <<"Content Quality Score", seoScore.contentQuality,
             getScoreStatus(seoScore.contentQuality)>>,
           <<"Technical SEO Score", seoScore.technicalSEO,
             getScoreStatus(seoScore.technicalSEO)>>,
           <<"Readability Score", seoScore.readability,
             getScoreStatus(seoScore.readability)>>,
           blank,
           <<"Word Count", wordStats.words, getWordCountStatus(wordStats.words)>>,
           <<"Character Count", wordStats.characters, "">>,
           <<"Sentence Count", wordStats.sentences, "">>,
           <<"Reading Time (minutes)", wordStats.readingTime, "">>,
           blank,
           <<"Flesch Reading Ease", readabilityScores.fleschEase,
             readabilityScores.fleschEaseGrade>>,
           <<"Flesch-Kincaid Grade", readabilityScores.fleschKincaid,
             readabilityScores.fleschKincaidGrade>>,
           <<"SMOG Index", readabilityScores.smogIndex, readabilityScores.smogGrade>>,
           blank,
           <<"Primary Keyword Density (%)", keywordAnalysis.primaryKeywordDensity,
             keywordAnalysis.status>>,
           <<"Primary Keyword Count", keywordAnalysis.primaryKeywordCount, "">>,
           <<"Target Keyword", IF kw = <<>> THEN <<"Not specified">> ELSE kw, "">> >>
        \o (IF Len(topKeywords) > 0
            THEN <<blank, <<"Top Keywords", "Count", "Density (%)">> >>
                     \o [i \in 1..Len(topKeywords) |->
                            <<topKeywords[i].word, topKeywords[i].count,
                              OrZero(topKeywords[i].density)>>]
            ELSE <<>>)

\* An export that forgets the stored result once the file is downloaded
ExportThenForget(fn, type, file, done, failed) ==
    /\ call' = [fn |-> fn,
                ret |-> IF NoKeys(analysisResults)
                        THEN [log |-> <<>>, alert |-> <<NoDataAlert>>, download |-> <<>>]
                        ELSE [log |-> <<done>>, alert |-> <<>>,
                              download |-> <<[type |-> type, data |-> file]>>]]
    /\ analysisResults' = NoResults
    /\ UNCHANGED <<content, targetKeyword, metaDescription, console, browser>>

\* The body both exports share: the alert on an empty result, the throw on a
\* result that lacks a part, the download of the file, and the catch block.
\* The outcome is left in call until the next handler runs: the line logged,
\* the alert shown and the file downloaded
Export(fn, type, file, done, failed) ==
    /\ \E outcome \in BrowserOutcomes :
           LET incomplete == ExportParts \ DOMAIN analysisResults # {}
               clicked == ~incomplete /\ outcome # "throws before click"
               thrown == IF incomplete THEN <<IncompleteError>>
                         ELSE IF outcome # "completes" THEN <<outcome>>
                         ELSE <<>>
           IN  call' = [fn |-> fn,
                        ret |-> IF NoKeys(analysisResults)
                                THEN [log |-> <<>>, alert |-> <<NoDataAlert>>,
                                      download |-> <<>>]
                                ELSE [log |-> IF thrown = <<>> THEN <<done>> ELSE <<failed>>,
                                      alert |-> IF thrown = <<>> THEN <<>>
                                                ELSE <<failed>> \o thrown,
                                      download |-> IF clicked
                                                   THEN <<[type |-> type, data |-> file]>>
                                                   ELSE <<>>]]
    /\ UNCHANGED <<content, targetKeyword, metaDescription, analysisResults, console, browser>>

\* The 'click' listener of #export-json
exportJSON ==
    Export("exportJSON", "application/json",
           exportData(analysisResults, content, targetKeyword, metaDescription),
           "JSON export completed successfully", "Export failed:")

\* The 'click' listener of #export-csv
exportCSV ==
    Export("exportCSV", "text/csv", csvData(analysisResults, targetKeyword),
           "CSV export completed successfully", "CSV export failed:")

\* clearContent(), confirmed: the page reloads and the constructor runs again
ClearContent ==
    /\ content' = <<>>
    /\ targetKeyword' = <<>>
    /\ metaDescription' = <<>>
    /\ analysisResults' = NoResults
    /\ console' = LogReset
    /\ call' = NoCall
    /\ browser' = IdleBrowser

(***************************************************************************)
(* The inputs of the model                                                 *)
(***************************************************************************)
\* The longest run of plain words typed into the page, in words
MaxWords == 2

cup == <<"c","u","p">>
mug == <<"m","u","g">>
jar == <<"j","a","r">>
pan == <<"p","a","n">>
lid == <<"l","i","d">>
box == <<"b","o","x">>
tin == <<"t","i","n">>
bag == <<"b","a","g">>
keg == <<"k","e","g">>
urn == <<"u","r","n">>
beautiful == <<"b","e","a","u","t","i","f","u","l">>
over == <<"o","v","e","r">>
it == <<"i","t">>

tea == <<"t","e","a">>
pot == <<"p","o","t">>

\* words joined by single spaces
RECURSIVE JoinWith(_, _)
JoinWith(words, sep) ==
    IF words = <<>> THEN <<>>
    ELSE IF Len(words) = 1 THEN words[1]
    ELSE words[1] \o sep \o JoinWith(Tail(words), sep)

SeqsUpTo(S, n) == UNION {[1..k -> S] : k \in 1..n}

\* text padded with "x" to n characters
Pad(text, n) == [i \in 1..n |-> IF i <= Len(text) THEN text[i] ELSE "x"]

\* A short article: an H1 that holds "tea", two H2 and five distinct words
Article ==
    <<"#"," ","t","e","a","\n",
      "#","#"," ","p","o","t","\n",
      "#","#"," ","c","u","p"," ","m","u","g"," ","j","a","r">>

\* What is typed into #content-input: nothing, a blank, some words, the
\* article, or the word "constructor"
Contents ==
    {<<>>, <<" ">>, Article, constructor}
        \cup {JoinWith(ws, <<" ">>) : ws \in SeqsUpTo({tea, pot}, MaxWords)}

\* What is typed into #target-keyword: nothing, a word, a phrase, and a
\* phrase that holds a character special in a regular expression
Keywords == {<<>>, tea, tea \o <<" ">> \o pot, tea \o <<" ", "(">> \o pot}

\* What is typed into #meta-description: nothing, or 150 characters that
\* hold the keyword
Metas == {<<>>, Pad(tea \o <<" ">>, 150)}

\* Each listener runs once its timer has fired; the timers themselves are
\* in SpecDebounce
Next ==
    \/ \E value \in Contents : ContentInput(value) /\ UNCHANGED browser
    \/ \E value \in Keywords : KeywordInput(value) /\ UNCHANGED browser
    \/ \E value \in Metas : MetaInput(value) /\ UNCHANGED browser
    \/ ClearContent
    \/ exportJSON
    \/ exportCSV

Spec == Init /\ [][Next]_vars

(***************************************************************************)
(* The analysis as a whole: updateAnalysis under the handlers (Spec)       *)
(***************************************************************************)
\* C1: two runs of updateAnalysis on the same content, target keyword and
\* meta description store equal results whatever was analysed before: every
\* run that stores a result stores the one a fresh page stores for the triple
C1_SameInputsSameResults ==
    [][(console' = LogComplete /\ analysisResults' # analysisResults)
          => analysisResults' = AnalysisOf(content', targetKeyword',
                                           metaDescription', NoResults)]_vars

\* C2: with non-blank content the analysis completes without an exception,
\* whatever the keyword and the meta description hold, and the stored result
\* is complete and computed from the content on the page
C2_AnalysisAlwaysCompletes ==
    trim(content) # <<>> =>
        /\ console = LogComplete
        /\ analysisResults # NoResults
        /\ DOMAIN analysisResults = {"wordStats", "readabilityScores",
               "keywordAnalysis", "headingStructure", "seoScore"}
        /\ analysisResults.wordStats = calculateWordStats(content)
        /\ analysisResults.readabilityScores = calculateReadabilityScores(content)
        /\ analysisResults.headingStructure = analyzeHeadingStructure(content)

\* C3: in every stored result primaryKeywordDensity is primaryKeywordCount
\* over the words of the wordStats of that same result, times 100, rounded
\* to 2 decimals
C3_DensityOverOwnWordCount ==
    analysisResults # NoResults =>
        analysisResults.keywordAnalysis.primaryKeywordDensity
            = RoundedDensity(analysisResults.keywordAnalysis.primaryKeywordCount,
                             analysisResults.wordStats.words)

\* C10: for a keyword of two or more words the stored primaryKeywordCount is
\* E + floor(P * 0.5), with E the exact phrase matches and P the windows
\* that match partially, so it is at least E, and the stored density is at
\* least that of E matches in the words of the document (0.4 for two matches
\* in 500 words)
C10_PhraseCountAndDensity ==
    (console = LogComplete /\ Len(KeywordWords(targetKeyword)) >= 2) =>
        LET E == exactMatches(content, KeywordWords(targetKeyword))
            P == partialMatches(content, KeywordWords(targetKeyword))
            ka == analysisResults.keywordAnalysis
        IN  /\ ka.primaryKeywordCount = E + (P \div 2)
            /\ ka.primaryKeywordCount >= E
            /\ ka.primaryKeywordDensity
                   >= (10000 * E) \div analysisResults.wordStats.words

(***************************************************************************)
(* analyzeHeadingStructure on its own (SpecHeadings): the object holds a   *)
(* content of heading lines and the method is called on it.                *)
(***************************************************************************)
\* The longest content of heading lines, in lines
MaxLines == 3

\* The most copies of the two-line block "# a", "### c" in one content
MaxRepeat == 10

\* The lines: markdown headings of levels 1 to 4, HTML headings of levels 1
\* to 3, and a line of text
HeadingLines ==
    { <<"#"," ","a">>,
      <<"#","#"," ","b">>,
      <<"#","#","#"," ","c">>,
      <<"#","#","#","#"," ","d">>,
      <<"<","h","1",">","a","<","/","h","1",">">>,
      <<"<","h","2",">","b","<","/","h","2",">">>,
      <<"<","h","3",">","c","<","/","h","3",">">>,
      <<"x">> }

RECURSIVE Repeat(_, _)
Repeat(block, k) == IF k = 0 THEN <<>> ELSE block \o Repeat(block, k - 1)

HeadingContents ==
    {JoinWith(ls, <<"\n">>) : ls \in SeqsUpTo(HeadingLines, MaxLines)}
        \cup {Repeat(<<"#"," ","a","\n","#","#","#"," ","c","\n">>, k) :
                 k \in 1..MaxRepeat}

InitHeadings ==
    /\ content \in HeadingContents
    /\ targetKeyword = <<>>
    /\ metaDescription = <<>>
    /\ analysisResults = NoResults
    /\ console = LogReset
    /\ call = NoCall
    /\ browser = IdleBrowser

\* this.analyzeHeadingStructure()
CallAnalyzeHeadingStructure ==
    /\ call' = [fn |-> "analyzeHeadingStructure",
                ret |-> analyzeHeadingStructure(content)]
    /\ UNCHANGED <<content, targetKeyword, metaDescription, analysisResults, console, browser>>

NextHeadings == CallAnalyzeHeadingStructure

SpecHeadings == InitHeadings /\ [][NextHeadings]_vars

\* analyzeHeadingStructure has returned
HeadingsReturned == call.fn = "analyzeHeadingStructure"

\* C5: for content whose only heading is one level-2 heading the score is
\* 70 (100 less 30 for the missing H1, nothing for the hierarchy) and the
\* issues hold the missing-H1 entry and no hierarchy entry
C5_LoneH2Scores70 ==
    (/\ HeadingsReturned
     /\ call.ret.totalHeadings = 1
     /\ call.ret.headings[1].level = 2)
    => /\ call.ret.structureScore = 70
       /\ call.ret.issues = <<"Missing H1 tag">>

\* C6: for a heading list that begins with an H1, structureScore is
\* max(0, 100 - 20 * [more than one H1] - 10 * v), v the number of headings
\* whose level exceeds that of their predecessor by more than 1; the score
\* lies in 0..100; and the list H1, H2, H3 gives 3 headings, hasH1, not
\* multipleH1, no issues and 100
C6_ScoreOfListsFromH1 ==
    (/\ HeadingsReturned
     /\ call.ret.headings # <<>>
     /\ call.ret.headings[1].level = 1)
    => LET hs == call.ret.headings
           h1s == Cardinality({i \in 1..Len(hs) : hs[i].level = 1})
           v == Cardinality({i \in 2..Len(hs) : hs[i].level > hs[i - 1].level + 1})
           raw == 100 - (IF h1s > 1 THEN 20 ELSE 0) - 10 * v
       IN  /\ call.ret.structureScore = (IF raw < 0 THEN 0 ELSE raw)
           /\ call.ret.structureScore \in 0..100
           /\ ([i \in 1..Len(hs) |-> hs[i].level] = <<1, 2, 3>>
                  => /\ call.ret.totalHeadings = 3
                     /\ call.ret.hasH1
                     /\ ~call.ret.multipleH1
                     /\ call.ret.issues = <<>>
                     /\ call.ret.structureScore = 100)

\* C6 happens: a list that begins with an H1, holds several H1 and so many
\* violations that the score is floored at 0
C6_FlooredAtZero ==
    /\ HeadingsReturned
    /\ call.ret.headings # <<>>
    /\ call.ret.headings[1].level = 1
    /\ call.ret.multipleH1
    /\ Cardinality({i \in 2..Len(call.ret.headings) :
           call.ret.headings[i].level > call.ret.headings[i - 1].level + 1}) >= 9
    /\ call.ret.structureScore = 0

\* C7: the returned heading list holds the markdown and the HTML headings in
\* the order of their positions in the content: of two extracted headings,
\* the one that starts earlier comes first
C7_HeadingsInSourceOrder ==
    HeadingsReturned =>
        LET matches == headingMatches(content)
        IN  /\ Len(call.ret.headings) = Len(matches)
            /\ \A i, j \in 1..Len(matches) :
                   matches[i].index < matches[j].index
                       => /\ i < j
                          /\ call.ret.headings[i].level = matches[i].level
                          /\ call.ret.headings[j].level = matches[j].level

(***************************************************************************)
(* analyzeKeywords on its own (SpecKeywords): the keyword was typed on a   *)
(* fresh page, then a filler document was analysed and stored, and now     *)
(* the content on the page is analysed.                                    *)
(***************************************************************************)
\* The longest filler document analysed before, in words
MaxStoredWords == 205

\* The filler document of w words: "x. x. x." (every word a sentence)
FillerText(w) == Repeat(<<" ","x",".">>, w)

\* What updateAnalysis stores for FillerText(w) on a fresh page whose target
\* keyword is kw (a keyword of letters other than "x") and whose meta
\* description is empty: w words in 3w - 1 characters, w sentences, one
\* paragraph, one syllable a word, no keyword match, no top keyword, no
\* heading
StoredAfterFiller(w, kw) ==
    LET wordStats == WordStatsOf(w, 3 * w - 1, w, 1)
        readabilityScores == ReadabilityOf(w, w, w, 0)
        keywordAnalysis == KeywordAnalysisOf(0, w, trim(kw) # <<>>, <<>>, <<>>)
        headingStructure == HeadingStructureOf(<<>>)
    IN  [wordStats |-> wordStats,
         readabilityScores |-> readabilityScores,
         keywordAnalysis |-> keywordAnalysis,
         headingStructure |-> headingStructure,
         seoScore |-> calculateSEOScore(wordStats, readabilityScores,
                          keywordAnalysis, headingStructure, kw, <<>>)]

\* Eleven distinct words, the last of them twice
ElevenWords ==
    JoinWith(<<cup, mug, jar, pan, lid, box, tin, bag, keg, urn, tea, tea>>, <<" ">>)

\* Six of the nine patterns of "tea": "best teas" holds "best tea" and "teas"
SixVariants ==
    JoinWith(<<<<"b","e","s","t">>, <<"t","e","a","s">>, <<"t","e","a","e","d">>,
               <<"t","e","a","i","n","g">>, <<"t","e","a","e","r">>,
               <<"t","e","a","e","s","t">>>>, <<" ">>)

\* A stop word, a short token, a number and a word: "The it 42 tea."
UncountedWords ==
    <<"T","h","e"," ","i","t"," ","4","2"," ","t","e","a",".">>

KeywordContents ==
    {tea, pot, tea \o <<" ">> \o pot, <<"t","e","a","s"," ">> \o pot,
     ElevenWords, SixVariants, UncountedWords, constructor,
     constructor \o <<" ">> \o tea,
     \* words joined by punctuation: "tea,tea,tea"
     JoinWith(<<tea, tea, tea>>, <<",">>)}

\* No keyword, a blank one, a word, a phrase
KeywordTargets == {<<>>, <<" ">>, tea, tea \o <<" ">> \o pot}

InitKeywords ==
    /\ content \in KeywordContents
    /\ targetKeyword \in KeywordTargets
    /\ metaDescription = <<>>
    /\ analysisResults \in
           {NoResults} \cup {StoredAfterFiller(w, targetKeyword) :
                                w \in 1..MaxStoredWords}
    /\ console = (IF analysisResults = NoResults THEN LogReset ELSE LogComplete)
    /\ call = NoCall
    /\ browser = IdleBrowser

\* this.analyzeKeywords()
CallAnalyzeKeywords ==
    /\ ~analyzeKeywordsThrows(content, targetKeyword)
    /\ call' = [fn |-> "analyzeKeywords",
                ret |-> analyzeKeywords(content, targetKeyword, analysisResults)]
    /\ UNCHANGED <<content, targetKeyword, metaDescription, analysisResults, console, browser>>

NextKeywords == CallAnalyzeKeywords

SpecKeywords == InitKeywords /\ [][NextKeywords]_vars

\* C4: with a target keyword set, the status is the one of the band of the
\* reported primaryKeywordDensity d: d = 0 not found, 0 < d < 0.5 too low,
\* 0.5 <= d <= 2 optimal, 2 < d <= 3 slightly high, d > 3 too high
C4_StatusOfReportedDensity ==
    (call.fn = "analyzeKeywords" /\ trim(targetKeyword) # <<>>) =>
        LET d == call.ret.primaryKeywordDensity
        IN  call.ret.status =
                (IF d = 0 THEN "Keyword not found in content"
                 ELSE IF d < 50 THEN "Keyword density too low"
                 ELSE IF d <= 200 THEN "Optimal keyword density"
                 ELSE IF d <= 300 THEN "Keyword density slightly high"
                 ELSE "Keyword density too high - risk of over-optimization")

(***************************************************************************)
(* calculateSEOScore on its own (SpecScore).  A document of hundreds or    *)
(* thousands of words is held by its make-up instead of its characters:    *)
(* its heading lines, then a body of words separated by single spaces.     *)
(* The heading lines are markdown, "# tea" or "# pot" for an H1 and        *)
(* "## pot", "### pot" below; the body holds, in this order, the first     *)
(* `extras` of ten distinct three-letter words, `teaWords` times "tea",    *)
(* the first `variants` of teas, teaed, teaing, teaer, teaest, `longWords` *)
(* times "beautiful", `mediumWords` times "over" and `shortWords` times    *)
(* "it"; `sentences` of the body words are followed by ".", the last word  *)
(* among them.  What the four analyses return for such a document is       *)
(* computed from its runs of equal words with the operators of the engine. *)
(***************************************************************************)
ExtraWords == <<cup, mug, jar, pan, lid, box, tin, bag, keg, urn>>

\* teas, teaed, teaing, teaer, teaest
VariantWords == SubSeq(SemanticPatterns(tea), 1, 5)

\* The tokens of the heading lines: the hashes and the text of each heading
DocHeadingRuns(d) ==
    [k \in 1..(2 * Len(d.headings)) |->
        LET level == d.headings[(k + 1) \div 2]
        IN  [word |-> IF k % 2 = 1 THEN [i \in 1..level |-> "#"]
                      ELSE IF level = 1 /\ d.h1Tea THEN tea ELSE pot,
             copies |-> 1]]

DocBodyRuns(d) ==
    SelectSeq([k \in 1..d.extras |-> [word |-> ExtraWords[k], copies |-> 1]]
              \o <<[word |-> tea, copies |-> d.teaWords]>>
              \o [k \in 1..d.variants |-> [word |-> VariantWords[k], copies |-> 1]]
              \o <<[word |-> beautiful, copies |-> d.longWords],
                   [word |-> over, copies |-> d.mediumWords],
                   [word |-> it, copies |-> d.shortWords]>>,
              LAMBDA r : r.copies > 0)

DocRuns(d) == DocHeadingRuns(d) \o DocBodyRuns(d)

\* The sum over the runs of copies times the run's entry of perWord
SumOverRuns(runs, perWord) ==
    SumSeq([k \in 1..Len(runs) |-> runs[k].copies * perWord[k]])

\* The number of tokens in the runs
TokensOf(runs) == SumOverRuns(runs, [k \in 1..Len(runs) |-> 1])

\* The runs of cleanedWords: a token of the document has no punctuation
\* inside, so it is one cleaned word, or none when it is all hashes
DocCleanedRuns(d) ==
    SelectSeq(DocRuns(d), LAMBDA r : StripOutside(r.word, WordChars) # <<>>)

\* calculateWordStats() for the document: one character separates two
\* tokens, one "." follows each of `sentences` words, no line is blank
DocWordStats(d) ==
    LET runs == DocRuns(d)
        words == TokensOf(runs)
    IN  WordStatsOf(words,
                    SumOverRuns(runs, [k \in 1..Len(runs) |-> Len(runs[k].word)])
                        + words - 1 + d.sentences,
                    d.sentences,
                    1)

\* calculateReadabilityScores() for the document
DocReadability(d) ==
    LET runs == DocRuns(d)
        syllables == [k \in 1..Len(runs) |-> countWordSyllables(runs[k].word)]
    IN  ReadabilityOf(TokensOf(runs),
                      d.sentences,
                      SumOverRuns(runs, syllables),
                      SumOverRuns(runs, [k \in 1..Len(runs) |->
                                            IF syllables[k] >= 3 THEN 1 ELSE 0]))

\* The text extractSemanticKeywords searches, cut to one copy of every run
DocDigest(d) ==
    LET runs == DocRuns(d)
    IN  JoinWith([k \in 1..Len(runs) |-> runs[k].word], <<" ">>)

\* analyzeKeywords() for the document on a fresh page, kw empty or one word
DocKeywords(d, kw) ==
    LET cleaned == DocCleanedRuns(d)
        keywordWord == KeywordWords(kw)[1]
        matches == [k \in 1..Len(cleaned) |->
                       IF SingleWordMatches(cleaned[k].word, keywordWord)
                       THEN 1 ELSE 0]
    IN  KeywordAnalysisOf(
            IF trim(kw) = <<>> THEN 0 ELSE SumOverRuns(cleaned, matches),
            TokensOf(DocRuns(d)),
            trim(kw) # <<>>,
            TopKeywordsOf(WordCountsOfRuns(cleaned), TokensOf(cleaned)),
            extractSemanticKeywords(DocDigest(d), kw))

\* analyzeHeadingStructure() for the document
DocHeadings(d) ==
    HeadingStructureOf([i \in 1..Len(d.headings) |->
        [level |-> d.headings[i],
         text |-> IF d.headings[i] = 1 /\ d.h1Tea THEN tea ELSE pot]])

\* What updateAnalysis computes and stores for the document on a fresh page
DocAnalysis(d, kw, meta) ==
    LET wordStats == DocWordStats(d)
        readabilityScores == DocReadability(d)
        keywordAnalysis == DocKeywords(d, kw)
        headingStructure == DocHeadings(d)
    IN  [wordStats |-> wordStats,
         readabilityScores |-> readabilityScores,
         keywordAnalysis |-> keywordAnalysis,
         headingStructure |-> headingStructure,
         seoScore |-> calculateSEOScore(wordStats, readabilityScores,
                          keywordAnalysis, headingStructure, kw, meta)]

\* The longest document, in units of 500 words
MaxHalfThousands == 6

DocLengths == {100, 300, 800} \cup {500 * k : k \in 1..MaxHalfThousands}

\* The heading lines: none, a lone H2, one H1 over four subheadings, two H1
DocHeadingLayouts == {<<>>, <<2>>, <<1, 2, 2, 3, 3>>, <<1, 1, 2>>}

\* Words a sentence: 5, 16 or 26
DocSentenceLengths == {5, 16, 26}

\* The shares of "over" and of "beautiful" in the words, in percent
DocSyllableMixes == {<<1, 0>>, <<9, 0>>, <<33, 5>>}

\* The words that match the keyword "tea", in thousandths of the words, and
\* how many of the five variants are among them
DocKeywordShares == {<<0, 0>>, <<12, 0>>, <<12, 5>>, <<40, 0>>}

\* The document of `length` words with the given headings, a share of words
\* that match the keyword "tea" (tea itself in the H1 and in the body, and
\* the variants), and "it" for every word not asked for otherwise
DocumentOf(length, headings, h1Tea, sentenceLength, mix, share, extras) ==
    LET teaHeadings == IF h1Tea
                       THEN Cardinality({i \in 1..Len(headings) : headings[i] = 1})
                       ELSE 0
        teaWords == (share[1] * length) \div 1000 - share[2] - teaHeadings
        longWords == (length * mix[2]) \div 100
        mediumWords == (length * mix[1]) \div 100
    IN  [headings |-> headings, h1Tea |-> h1Tea, extras |-> extras,
         teaWords |-> teaWords, variants |-> share[2],
         longWords |-> longWords, mediumWords |-> mediumWords,
         shortWords |-> length - 2 * Len(headings) - extras - teaWords
                            - share[2] - longWords - mediumWords,
         sentences |-> length \div sentenceLength]

Documents ==
    {d \in {DocumentOf(length, headings, h1Tea, sentenceLength, mix, share, extras) :
               length \in DocLengths,
               headings \in DocHeadingLayouts,
               h1Tea \in BOOLEAN,
               sentenceLength \in DocSentenceLengths,
               mix \in DocSyllableMixes,
               share \in DocKeywordShares,
               extras \in {0, 10}} :
        /\ d.teaWords >= 0
        /\ d.shortWords >= 0
        /\ d.h1Tea => \E i \in 1..Len(d.headings) : d.headings[i] = 1}

\* The target keyword of SpecScore: none, or "tea"
ScoreKeywords == {<<>>, tea}

\* The meta description of SpecScore: none, 110 characters, or 150
\* characters that hold "tea"
ScoreMetas == {<<>>, Pad(<<>>, 110), Pad(tea \o <<" ">>, 150)}

InitScore ==
    /\ content \in Documents
    /\ targetKeyword \in ScoreKeywords
    /\ metaDescription \in ScoreMetas
    /\ analysisResults = NoResults
    /\ console = LogReset
    /\ call = NoCall
    /\ browser = IdleBrowser

\* this.calculateSEOScore(wordStats, readabilityScores, keywordAnalysis,
\* headingStructure), as updateAnalysis calls it
CallCalculateSEOScore ==
    /\ \E analysis \in {DocAnalysis(content, targetKeyword, metaDescription)} :
           call' = [fn |-> "calculateSEOScore",
                    args |-> <<analysis.wordStats, analysis.readabilityScores,
                               analysis.keywordAnalysis, analysis.headingStructure>>,
                    ret |-> analysis.seoScore]
    /\ UNCHANGED <<content, targetKeyword, metaDescription, analysisResults, console, browser>>

NextScore == CallCalculateSEOScore

SpecScore == InitScore /\ [][NextScore]_vars

\* C8: every result of calculateSEOScore reports contentQuality, technicalSEO,
\* readability and userExperience as integers from 0 to 100, and its overall
\* is round(0.35 * contentQuality + 0.30 * technicalSEO + 0.20 * readability
\* + 0.15 * userExperience) of those reported scores, itself from 0 to 100
C8_ScoresInRangeAndWeighted ==
    call.fn = "calculateSEOScore" =>
        LET s == call.ret
        IN  /\ s.contentQuality \in 0..100
            /\ s.technicalSEO \in 0..100
            /\ s.readability \in 0..100
            /\ s.userExperience \in 0..100
            /\ s.overall = (2 * (35 * s.contentQuality + 30 * s.technicalSEO
                                 + 20 * s.readability + 15 * s.userExperience)
                            + 100) \div 200
            /\ s.overall \in 0..100

\* A result whose technical points add up to 105 and are reported as 100
C8_TechnicalClampActive ==
    /\ call.fn = "calculateSEOScore"
    /\ TechnicalSEOPoints(call.args[4], call.args[3], targetKeyword,
                          metaDescription) = 105
    /\ call.ret.technicalSEO = 100

\* C9: a 2000-word document with reported keyword density 1.2%,
\* Flesch-Kincaid grade 7.5, exactly one H1 plus four subheadings in a
\* well-formed hierarchy, and a 150-character meta description that holds
\* the keyword, takes the top band of every component of each of the four
\* category scores (each category is 100) and has overall >= 80
C9_CompositeScenarioTopBands ==
    (/\ call.fn = "calculateSEOScore"
     /\ call.args[1].words = 2000
     /\ call.args[3].primaryKeywordDensity = 120
     /\ call.args[2].fleschKincaid = 75
     /\ call.args[4].headingCounts.h1 = 1
     /\ call.args[4].totalHeadings = 5
     /\ call.args[4].issues = <<>>
     /\ Len(metaDescription) = 150
     /\ targetKeyword # <<>>
     /\ includes(toLowerCase(metaDescription), toLowerCase(targetKeyword)))
    => /\ call.ret.contentQuality = 100
       /\ call.ret.technicalSEO = 100
       /\ call.ret.readability = 100
       /\ call.ret.userExperience = 100
       /\ call.ret.overall >= 80

\* C11: with a target keyword that is empty or blank and a content that is
\* not, analyzeKeywords returns count 0, density 0, the status 'Enter target
\* keyword for analysis' and no semantic keyword, and its topKeywords is the
\* list the same content gives with any keyword
C11_NoKeywordSentinel ==
    (/\ call.fn = "analyzeKeywords"
     /\ trim(targetKeyword) = <<>>
     /\ trim(content) # <<>>)
    => /\ call.ret.primaryKeywordCount = 0
       /\ call.ret.primaryKeywordDensity = 0
       /\ call.ret.status = "Enter target keyword for analysis"
       /\ call.ret.semanticKeywords = <<>>
       /\ \A kw \in KeywordTargets :
              ~analyzeKeywordsThrows(content, kw) =>
                  analyzeKeywords(content, kw, analysisResults).topKeywords
                      = call.ret.topKeywords

\* A blank keyword over a content that has top keywords, after a stored
\* analysis
C11_BlankKeywordTopKeywords ==
    /\ call.fn = "analyzeKeywords"
    /\ targetKeyword = <<" ">>
    /\ analysisResults # NoResults
    /\ Len(call.ret.topKeywords) = 10
    /\ call.ret.status = "Enter target keyword for analysis"

\* C12: topKeywords has at most 10 entries, its counts do not increase along
\* the list, entries of equal count stand in the order in which their words
\* first occur in the content, no entry is a stop word, shorter than 3
\* characters or all digits, and every count is a number >= 1
C12_TopKeywordsRanked ==
    call.fn = "analyzeKeywords" =>
        LET top == call.ret.topKeywords
            words == NonEmpty(split(NormalizedText(content), WhiteSpace))
            key == [i \in 1..Len(words) |->
                       toLowerCase(StripOutside(words[i],
                           LowerLetters \cup UpperLetters \cup Digits))]
            occurs(word) == {i \in 1..Len(words) : key[i] = word}
            firstSeen(word) == CHOOSE i \in occurs(word) :
                                   \A j \in occurs(word) : i <= j
        IN  /\ Len(top) <= 10
            /\ \A k \in 1..Len(top) :
                   /\ occurs(top[k].word) # {}
                   /\ top[k].word \notin stopWords
                   /\ Len(top[k].word) >= 3
                   /\ \E j \in 1..Len(top[k].word) : top[k].word[j] \notin Digits
                   /\ top[k].count >= 1
            /\ \A k \in 1..(Len(top) - 1) :
                   /\ top[k].count >= top[k + 1].count
                   /\ top[k].count = top[k + 1].count =>
                          firstSeen(top[k].word) < firstSeen(top[k + 1].word)

\* C13: semanticKeywords has at most 5 entries; each is one of the nine
\* candidates built from the keyword, differs from the keyword and occurs in
\* the lowercased content; the entries keep the order of the candidate list
\* and are the first five candidates that match; the list is empty when no
\* keyword is set
C13_SemanticKeywordsFirstFive ==
    call.fn = "analyzeKeywords" =>
        LET semantic == call.ret.semanticKeywords
            text == toLowerCase(content)
            keyword == toLowerCase(targetKeyword)
            candidates == SemanticPatterns(keyword)
            kept == {semantic[k] : k \in 1..Len(semantic)}
            place(k) == CHOOSE i \in 1..9 : candidates[i] = semantic[k]
        IN  /\ Len(semantic) <= 5
            /\ \A k \in 1..Len(semantic) :
                   /\ \E i \in 1..9 : candidates[i] = semantic[k]
                   /\ semantic[k] # keyword
                   /\ includes(text, semantic[k])
            /\ \A k \in 1..(Len(semantic) - 1) : place(k) < place(k + 1)
            /\ \A i \in 1..9 :
                   (/\ trim(targetKeyword) # <<>>
                    /\ includes(text, candidates[i])
                    /\ candidates[i] \notin kept)
                   => Len(semantic) = 5 /\ place(5) < i
            /\ trim(targetKeyword) = <<>> => semantic = <<>>

\* Six candidates match and the sixth is cut off
C13_SixthCandidateDropped ==
    /\ call.fn = "analyzeKeywords"
    /\ Len(call.ret.semanticKeywords) = 5
    /\ includes(toLowerCase(content), SemanticPatterns(toLowerCase(targetKeyword))[6])

(***************************************************************************)
(* calculateWordStats, calculateReadabilityScores and countWordSyllables   *)
(* on their own (SpecStats), over every content of a few characters.       *)
(***************************************************************************)
\* The longest content, in characters
MaxChars == 4

\* Letters, a digit, the two kinds of whitespace and two sentence ends
StatsAlphabet == {"a", "e", "s", "4", " ", "\n", ".", "?"}

StatsContents == UNION {[1..n -> StatsAlphabet] : n \in 0..MaxChars}

InitStats ==
    /\ content \in StatsContents
    /\ targetKeyword = <<>>
    /\ metaDescription = <<>>
    /\ analysisResults = NoResults
    /\ console = LogReset
    /\ call = NoCall
    /\ browser = IdleBrowser

\* this.calculateWordStats()
CallCalculateWordStats ==
    /\ call' = [fn |-> "calculateWordStats", args |-> <<>>,
                ret |-> calculateWordStats(content)]
    /\ UNCHANGED <<content, targetKeyword, metaDescription, analysisResults, console, browser>>

\* this.calculateReadabilityScores()
CallCalculateReadabilityScores ==
    /\ call' = [fn |-> "calculateReadabilityScores", args |-> <<>>,
                ret |-> calculateReadabilityScores(content)]
    /\ UNCHANGED <<content, targetKeyword, metaDescription, analysisResults, console, browser>>

\* this.countWordSyllables(word), for a word of the loop of countSyllables
CallCountWordSyllables ==
    /\ \E i \in 1..Len(LowerWords(content)) :
           call' = [fn |-> "countWordSyllables",
                    args |-> <<LowerWords(content)[i]>>,
                    ret |-> countWordSyllables(LowerWords(content)[i])]
    /\ UNCHANGED <<content, targetKeyword, metaDescription, analysisResults, console, browser>>

NextStats ==
    \/ CallCalculateWordStats
    \/ CallCalculateReadabilityScores
    \/ CallCountWordSyllables

SpecStats == InitStats /\ [][NextStats]_vars

\* C14: when the content has no word, no sentence or no syllable,
\* calculateReadabilityScores returns fleschEase, fleschKincaid and smogIndex
\* 0 and the three grade labels 'N/A'
C14_ZeroGuardReturnsNA ==
    (/\ call.fn = "calculateReadabilityScores"
     /\ \/ calculateWordStats(content).words = 0
        \/ calculateWordStats(content).sentences = 0
        \/ countSyllables(content) = 0)
    => /\ call.ret.fleschEase = 0
       /\ call.ret.fleschKincaid = 0
       /\ call.ret.smogIndex = 0
       /\ call.ret.fleschEaseGrade = "N/A"
       /\ call.ret.fleschKincaidGrade = <<"N/A">>
       /\ call.ret.smogGrade = <<"N/A">>

\* C16: countWordSyllables returns at least 1 for every word that is not
\* empty
C16_SyllableFloor ==
    (call.fn = "countWordSyllables" /\ call.args[1] # <<>>) => call.ret >= 1

\* C17: calculateWordStats returns words, characters, sentences, paragraphs
\* and reading time 0 for an empty or blank content, and sentences = 1 for
\* every other content that holds no '.', '!' or '?'
C17_BlankZeroesAndOneSentence ==
    call.fn = "calculateWordStats" =>
        /\ (\A i \in 1..Len(content) : content[i] \in WhiteSpace) =>
               /\ call.ret.words = 0
               /\ call.ret.characters = 0
               /\ call.ret.sentences = 0
               /\ call.ret.paragraphs = 0
               /\ call.ret.readingTime = 0
        /\ (/\ \E i \in 1..Len(content) : content[i] \notin WhiteSpace
            /\ \A i \in 1..Len(content) : content[i] \notin {".", "!", "?"}) =>
               call.ret.sentences = 1

\* Words on two lines with no sentence end: one sentence
C17_TwoLinesOneSentence ==
    /\ call.fn = "calculateWordStats"
    /\ content = <<"a", "\n", "\n", "a">>
    /\ call.ret.sentences = 1
    /\ call.ret.paragraphs = 2

\* C18: for every content that is not blank, characters is the length of
\* the content as supplied, leading and trailing whitespace included
C18_CharactersIsFullLength ==
    (/\ call.fn = "calculateWordStats"
     /\ \E i \in 1..Len(content) : content[i] \notin WhiteSpace)
    => call.ret.characters = Len(content)

(***************************************************************************)
(* calculateWordStats on a plain text of up to MaxPlainWords words         *)
(* (SpecReadingTime); the text is given by its make-up, as in SpecScore.   *)
(***************************************************************************)
MaxPlainWords == 2400

\* "it it ... it.": w short words on one line, one sentence
PlainText(w) ==
    [headings |-> <<>>, h1Tea |-> FALSE, extras |-> 0, teaWords |-> 0,
     variants |-> 0, longWords |-> 0, mediumWords |-> 0, shortWords |-> w,
     sentences |-> 1]

InitReadingTime ==
    /\ content \in {PlainText(w) : w \in 1..MaxPlainWords}
    /\ targetKeyword = <<>>
    /\ metaDescription = <<>>
    /\ analysisResults = NoResults
    /\ console = LogReset
    /\ call = NoCall
    /\ browser = IdleBrowser

\* this.calculateWordStats() on the plain text
CallCalculateWordStatsPlain ==
    /\ call' = [fn |-> "calculateWordStats", args |-> <<>>,
                ret |-> DocWordStats(content)]
    /\ UNCHANGED <<content, targetKeyword, metaDescription, analysisResults, console, browser>>

NextReadingTime == CallCalculateWordStatsPlain

SpecReadingTime == InitReadingTime /\ [][NextReadingTime]_vars

\* C19: readingTime is round((words / 238) * 1.1, 1), and no content of
\* fewer words has a greater readingTime
C19_ReadingTimeMonotone ==
    call.fn = "calculateWordStats" =>
        /\ call.ret.readingTime = (22 * call.ret.words + 238) \div 476
        /\ \A fewer \in 0..call.ret.words :
               WordStatsOf(fewer, 0, 0, 0).readingTime <= call.ret.readingTime

\* 119 words read in 0.55 minutes, reported 0.6
C19_HalfMinute ==
    /\ call.fn = "calculateWordStats"
    /\ call.ret.words = 119
    /\ call.ret.readingTime = 6

\* C20: 238 words have readingTime 1.0 and 2380 words have readingTime 11.0
C20_ReadingTimeExamples ==
    call.fn = "calculateWordStats" =>
        /\ call.ret.words = 238 => call.ret.readingTime = 10
        /\ call.ret.words = 2380 => call.ret.readingTime = 110

\* C15: every numeric value of the stored result is finite and not
\* negative: fleschEase lies in [0, 100], fleschKincaid >= 0, smogIndex >= 0,
\* primaryKeywordDensity >= 0 and the density of every top keyword >= 0
C15_FiniteNonNegative ==
    analysisResults # NoResults =>
        LET readabilityScores == analysisResults.readabilityScores
            keywordAnalysis == analysisResults.keywordAnalysis
        IN  /\ readabilityScores.fleschEase \in 0..1000
            /\ readabilityScores.fleschKincaid >= 0
            /\ readabilityScores.smogIndex >= 0
            /\ keywordAnalysis.primaryKeywordDensity >= 0
            /\ \A k \in 1..Len(keywordAnalysis.topKeywords) :
                   /\ keywordAnalysis.topKeywords[k].density # NaN
                   /\ keywordAnalysis.topKeywords[k].density >= 0

(***************************************************************************)
(* The exports (SpecExport): the page with its handlers and its two export *)
(* buttons, over a few contents.                                           *)
(***************************************************************************)
\* What is typed into #content-input before an export: nothing, a word, the
\* article, or the word "constructor"
ExportContents == {<<>>, tea, Article, constructor}

NextExport ==
    \/ \E value \in ExportContents : ContentInput(value) /\ UNCHANGED browser
    \/ \E value \in ScoreKeywords : KeywordInput(value) /\ UNCHANGED browser
    \/ \E value \in Metas : MetaInput(value) /\ UNCHANGED browser
    \/ ClearContent
    \/ exportJSON
    \/ exportCSV

SpecExport == Init /\ [][NextExport]_vars

\* C21: exportJSON and exportCSV leave the stored analysisResults, content,
\* targetKeyword and metaDescription as they were, when the file is
\* downloaded and when the export ends in its alert or its catch block
C21_ExportsLeaveStateAlone ==
    [][(exportJSON \/ exportCSV)
          => UNCHANGED <<analysisResults, content, targetKeyword, metaDescription>>]_vars

\* A CSV export of a stored result whose download started and whose catch
\* block ran
C21_ExportFailedAfterDownload ==
    /\ call.fn = "exportCSV"
    /\ call.ret.download # <<>>
    /\ call.ret.alert # <<>>
    /\ analysisResults # NoResults
    /\ metaDescription # <<>>

\* C30: while no result is stored (analysisResults as the constructor left
\* it) an export shows the 'No analysis data to export' alert, downloads
\* nothing and changes no state; and a file that an export downloads holds
\* the wordStats, readabilityScores, keywordAnalysis and seoScore parts of the
\* stored result
C30_NoDataAlertOrCompleteFile ==
    /\ [](call.fn \in {"exportJSON", "exportCSV"} =>
             /\ analysisResults = NoResults =>
                    call.ret = [log |-> <<>>, alert |-> <<NoDataAlert>>, download |-> <<>>]
             /\ \A file \in {call.ret.download[i] : i \in DOMAIN call.ret.download} :
                    /\ analysisResults # NoResults
                    /\ call.fn = "exportJSON" =>
                           /\ ExportParts \subseteq DOMAIN file.data.analysisResults
                           /\ file.data.analysisResults = analysisResults
                    /\ call.fn = "exportCSV" =>
                           /\ file.data[2][2] = analysisResults.seoScore.overall
                           /\ file.data[7][2] = analysisResults.wordStats.words
                           /\ file.data[12][2] = analysisResults.readabilityScores.fleschEase
                           /\ file.data[17][2]
                                  = analysisResults.keywordAnalysis.primaryKeywordCount)
    /\ [][(analysisResults = NoResults /\ (exportJSON \/ exportCSV))
             => UNCHANGED <<content, targetKeyword, metaDescription,
                            analysisResults, console>>]_vars

\* A CSV export on a page whose meta description is typed and whose result
\* is still empty
C30_ExportWithoutResult ==
    /\ call.fn = "exportCSV"
    /\ analysisResults = NoResults
    /\ call.ret.alert = <<NoDataAlert>>
    /\ metaDescription # <<>>

(***************************************************************************)
(* The debounced listeners in time (SpecDebounce): one load of the page,   *)
(* with input events on the three fields, the clock of the browser and the *)
(* timers of the three debounce closures.  A timer fires when its time is  *)
(* up, before the clock moves on.                                          *)
(***************************************************************************)
\* The steps of the clock in one wait
Resolution == 2

tick == wait \div Resolution

\* clearTimeout(timeout): the timer the closure set last is pending no more
clearTimeout(pending) == {t \in pending : \E u \in pending : u > t}

\* A debounce that sets its timer and leaves the earlier one pending
debouncedKeepingTimer(pending) == pending \cup {wait}

\* The function debounce returns, called: the timer set last is cleared and
\* a timer of wait milliseconds is set
debounced(pending) == clearTimeout(pending) \cup {wait}

\* later(), called by the timer that fired: that timer is spent, the timer
\* set last is cleared, and func runs
later(pending) == clearTimeout(pending \ {0})

\* What is typed into each field
FieldValues == [content |-> {<<>>, tea}, keyword |-> {<<>>, tea}, meta |-> Metas]

\* The field of the object each listener assigns
Stored(f) ==
    CASE f = "content" -> content
      [] f = "keyword" -> targetKeyword
      [] f = "meta" -> metaDescription

\* An 'input' event on field f, whose value is now value
InputEvent(f, value) ==
    /\ browser' = [browser EXCEPT !.value[f] = value,
                                  !.timers[f] = debounced(@),
                                  !.sinceInput[f] = {0}]
    /\ UNCHANGED <<content, targetKeyword, metaDescription, analysisResults, console, call>>

\* The clock moves on by one tick while no timer is due
Tick ==
    /\ \A f \in Fields : 0 \notin browser.timers[f]
    /\ browser' = [browser EXCEPT
           !.timers = [f \in Fields |-> {t - tick : t \in @[f]}],
           !.sinceInput = [f \in Fields |-> {Min(t + tick, wait + tick) : t \in @[f]}],
           !.sinceRun = Min(@ + tick, wait)]
    /\ UNCHANGED <<content, targetKeyword, metaDescription, analysisResults, console, call>>

\* A timer of field f fires: later() runs the listener of the field, which
\* reads the value of the field
Later(f) ==
    /\ 0 \in browser.timers[f]
    /\ CASE f = "content" -> ContentInput(browser.value[f])
         [] f = "keyword" -> KeywordInput(browser.value[f])
         [] f = "meta" -> MetaInput(browser.value[f])
    /\ browser' = [browser EXCEPT !.timers[f] = later(@),
                                  !.sinceInput[f] = {},
                                  !.sinceRun = IF f = "meta" THEN @ ELSE 0]

NextDebounce ==
    \/ \E f \in Fields : \E value \in FieldValues[f] : InputEvent(f, value)
    \/ Tick
    \/ \E f \in Fields : Later(f)

SpecDebounce == Init /\ [][NextDebounce]_vars

\* The clock of the browser runs, and a timer that is due does not stay due
\* for ever: it fires, Later(f), unless an input event of the field clears
\* it first.  This is WF_vars(Later(f)) stated by the condition that enables
\* Later(f)
SpecDebounceFair ==
    /\ SpecDebounce
    /\ WF_vars(Tick)
    /\ \A f \in Fields : []<>(0 \notin browser.timers[f])

\* Each run of the listener of a field comes wait milliseconds after the
\* last input event of the field, reads the value the field holds then, and
\* leaves no timer of the field pending: one run for the burst
BurstRunsListenerOnce ==
    [][\A f \in Fields :
          Later(f) => /\ browser.sinceInput[f] = {wait}
                      /\ Stored(f)' = browser.value[f]
                      /\ browser'.timers[f] = {}]_vars

\* An input event of field f is followed by a run of its listener, after
\* which the object holds the value of the field
EventLeadsToRun(f) ==
    (browser.sinceInput[f] # {})
        ~> (browser.sinceInput[f] = {} /\ Stored(f) = browser.value[f])

C23_RunsAtLeastWaitApart ==
    [][(Later("content") \/ Later("keyword")) => browser.sinceRun >= wait]_vars

(***************************************************************************)
(* The result held by the page (Spec)                                      *)
(***************************************************************************)
\* C24: after updateAnalysis has run on empty or all-whitespace content, a
\* result the object holds is the empty result: all-zero word metrics, the
\* zeroed 'N/A' readability, the 'No content to analyze' keyword status with
\* count and density 0, and no headings; also when a non-blank content was
\* analysed before
C24_BlankContentHoldsEmptyResult ==
    (trim(content) = <<>> /\ console = LogReset /\ analysisResults # NoResults) =>
        /\ analysisResults.wordStats = calculateWordStats(<<>>)
        /\ analysisResults.readabilityScores = calculateReadabilityScores(<<>>)
        /\ analysisResults.keywordAnalysis.status = "No content to analyze"
        /\ analysisResults.keywordAnalysis.primaryKeywordCount = 0
        /\ analysisResults.keywordAnalysis.primaryKeywordDensity = 0
        /\ analysisResults.headingStructure.headings = <<>>

(***************************************************************************)
(* countWordSyllables on its own (SpecSyllables): the object holds one     *)
(* lowercase word and the method is called on it.                          *)
(***************************************************************************)
\* The longest word, in letters
MaxLetters == 5

SyllableAlphabet == {"a", "e", "y", "l", "r", "s", "d"}

\* The words of four letters and more
SyllableWords == UNION {[1..n -> SyllableAlphabet] : n \in 4..MaxLetters}

InitSyllables ==
    /\ content \in SyllableWords
    /\ targetKeyword = <<>>
    /\ metaDescription = <<>>
    /\ analysisResults = NoResults
    /\ console = LogReset
    /\ call = NoCall
    /\ browser = IdleBrowser

CallCountWordSyllablesOfWord ==
    /\ call' = [fn |-> "countWordSyllables", args |-> <<content>>,
                ret |-> countWordSyllables(content)]
    /\ UNCHANGED <<content, targetKeyword, metaDescription, analysisResults, console, browser>>

NextSyllables == CallCountWordSyllablesOfWord

SpecSyllables == InitSyllables /\ [][NextSyllables]_vars

\* The count of the description: the transitions into a vowel group from
\* position i on, where a 'y' that is the first letter or follows a vowel
\* is a consonant: it ends the group, and a vowel after it starts a new one
RECURSIVE TransitionsIntoVowelGroups(_, _, _, _)
TransitionsIntoVowelGroups(word, i, count, inGroup) ==
    IF i > Len(word) THEN count
    ELSE LET vowel == /\ word[i] \in Vowels
                      /\ ~(word[i] = "y" /\ (i = 1 \/ word[i - 1] \in Vowels))
         IN  TransitionsIntoVowelGroups(word, i + 1,
                 IF vowel /\ ~inGroup THEN count + 1 ELSE count, vowel)

\* The syllables of the description for a lowercase word of more than three
\* letters: one trailing 'ed', 'es' or 's' stripped, the vowel groups
\* counted, 1 less for a final 'e' after a consonant when the count exceeds
\* 1, 1 more for a final 'le' after a consonant, and 1 at least
SyllablesOfDescription(w) ==
    LET word == StripSyllableSuffix(w)
        n == Len(word)
        groups == TransitionsIntoVowelGroups(word, 1, 0, FALSE)
        silentE == IF /\ endsWith(word, <<"e">>)
                      /\ groups > 1
                      /\ n > 2
                      /\ word[n - 1] \notin Vowels
                   THEN groups - 1 ELSE groups
        le == IF /\ endsWith(word, <<"l","e">>)
                 /\ n > 2
                 /\ word[n - 2] \notin Vowels
              THEN silentE + 1 ELSE silentE
    IN  Max(1, le)

\* C25: for every lowercase, letters-only word of more than three letters
\* countWordSyllables returns the syllables of the description
C25_SyllablesAsDescribed ==
    call.fn = "countWordSyllables" => call.ret = SyllablesOfDescription(call.args[1])

(***************************************************************************)
(* More of the scores (SpecScore)                                          *)
(***************************************************************************)
\* C26: calculateTechnicalSEOScore awards the 10 points of the single-H1
\* bonus exactly when the content has exactly one H1: the score is the
\* points of the other rules plus 10 with one H1 and plus 0 with no H1 or
\* with several, capped at 100
C26_SingleH1BonusOnlyForOneH1 ==
    call.fn = "calculateSEOScore" =>
        LET headingStructure == call.args[4]
            keywordAnalysis == call.args[3]
            otherRules == TechnicalSEOPoints(
                              [headingStructure EXCEPT !.multipleH1 = TRUE],
                              keywordAnalysis, targetKeyword, metaDescription)
        IN  call.ret.technicalSEO
                = Min(100, otherRules
                           + (IF headingStructure.headingCounts.h1 = 1 THEN 10 ELSE 0))

(***************************************************************************)
(* The stored score at quiescence (SpecDebounce)                           *)
(***************************************************************************)
\* C27: when no debounce timer is pending and the content is not blank, the
\* stored seoScore is the score of the current content, target keyword and
\* meta description, whatever the input events on the three fields were; so
\* a change of the meta description alone shows in technicalSEO and overall
C27_QuiescentScoreIsCurrent ==
    ((\A f \in Fields : browser.timers[f] = {}) /\ trim(content) # <<>>) =>
        /\ analysisResults # NoResults
        /\ analysisResults.seoScore
               = AnalysisOf(content, targetKeyword, metaDescription, NoResults).seoScore

\* C28: calculateContentQualityScore never returns more than 92: with at
\* most 5 semantic keywords the depth band gives 15 at most, and with at most
\* 10 top keywords the 10 points of the vocabulary band ask for 1250 words at
\* most, which rules out the 25 points of the 1500 to 2500 word band
C28_ContentQualityAtMost92 ==
    call.fn = "calculateSEOScore" =>
        /\ call.ret.contentQuality <= 92
        /\ Len(call.args[3].semanticKeywords) <= 5
        /\ Len(call.args[3].topKeywords) <= 10
        /\ (call.args[1].words >= 1500 /\ call.args[1].words <= 2500) =>
               1000 * Len(call.args[3].topKeywords) < 8 * call.args[1].words

\* A document of 1500 to 2500 words with ten top keywords and five semantic
\* keywords that scores the 92 points
C28_ScoresAll92 ==
    /\ call.fn = "calculateSEOScore"
    /\ call.ret.contentQuality = 92
    /\ call.args[1].words >= 1500
    /\ Len(call.args[3].topKeywords) = 10
    /\ Len(call.args[3].semanticKeywords) = 5

(***************************************************************************)
(* The keyword count against the words of the content (SpecKeywords)       *)
(***************************************************************************)
\* C29: whatever the content and the keyword, primaryKeywordCount is at most
\* the word count of the analysed content, and so primaryKeywordDensity is
\* at most 100: for a single-word keyword with its stem matching, for a
\* phrase with its partial-window bonus, and for a content whose words are
\* joined by punctuation
C29_CountAtMostWords ==
    call.fn = "analyzeKeywords" =>
        /\ call.ret.primaryKeywordCount <= calculateWordStats(content).words
        /\ call.ret.primaryKeywordDensity <= 100 * 100

====
